---- MODULE Spec2Model ----
(***************************************************************************)
(* A model of the sylar coroutine runtime: Fiber (fiber.cpp), Scheduler    *)
(* (Schedule.h, Schedule.cpp), TimerManager (timer.cpp) and IOManager      *)
(* (iomanager.cpp).                                                        *)
(*                                                                         *)
(* Conventions.                                                            *)
(*  - A null pointer / empty std::function is 0; fibers, callbacks and     *)
(*    timers are positive integers.                                        *)
(*  - An Event mask is a subset of {READ, WRITE}; NONE is {}.  READ is     *)
(*    EPOLLIN and WRITE is EPOLLOUT (iomanager.h:19-26), so the same set   *)
(*    is used for the epoll interest of an fd.                             *)
(*  - halt = "assert": SYLAR_ASSERT failed and the process aborted;        *)
(*    halt = "segv": undefined behaviour ended in a fault.  Nothing runs   *)
(*    once halt # "no".                                                    *)
(*  - Thread 0 is the thread that constructs the scheduler (the caller     *)
(*    thread); private workers are threads 1..m_threadCount.               *)
(***************************************************************************)
EXTENDS Integers, Sequences, FiniteSets, TLC

\* ------------------------------------------------------------------ bounds
MaxFd == 2
MaxCb == 3
MaxOps == 3
MaxWorkers == 1
MaxBatch == 1
MaxPipe == 1
MaxTimers == 2
MaxFiberOps == 5
MaxPeriod == 2
MaxTick == 1
MaxGrow == 3

Fds == 0 .. (MaxFd - 1)
Cbs == 1 .. MaxCb
Tids == 0 .. MaxWorkers
FiberIds == 1 .. (MaxCb + 2 * MaxWorkers + 3)
TimerIds == 1 .. MaxTimers
Periods == 1 .. MaxPeriod

\* ------------------------------------------------------- program constants
READ == "READ"
WRITE == "WRITE"
NONE == {}
Event == {READ, WRITE}

INIT == "INIT"
HOLD == "HOLD"
EXEC == "EXEC"
TERM == "TERM"
READY == "READY"
EXCEPT_ == "EXCEPT"
State == {INIT, HOLD, EXEC, TERM, READY, EXCEPT_}

EPOLL_CTL_ADD == "ADD"
EPOLL_CTL_MOD == "MOD"
EPOLL_CTL_DEL == "DEL"

\* getNextTimer()'s ~0ull, kept symbolic.
NoTimer == -1

\* size_t counters are kept as the signed representative of their value
\* modulo 2^64: 0 - 1 is stored as -1 and stands for 2^64 - 1.
SizeInc(x) == x + 1
SizeDec(x) == x - 1
SizeIsZero(x) == x = 0
SizeGtZero(x) == x # 0

\* ------------------------------------------------------------ run queue
\* Scheduler::FiberAndThread (Schedule.h:111-146).  The pointer constructors
\* swap the caller's handle out (the caller's variable becomes empty); the
\* value constructors copy it.
FiberAndThread(fiber, cb, thread) == [fiber |-> fiber, cb |-> cb, thread |-> thread]
NoTask == FiberAndThread(0, 0, -1)

\* Scheduler::scheduleNoLock (Schedule.h:100-108)
scheduleNoLock_pushFront(q, ft) ==
    [q |-> IF ft.fiber # 0 \/ ft.cb # 0 THEN <<ft>> \o q ELSE q,
     need_tickle |-> q = <<>>]
scheduleNoLock_always(q, ft) ==
    [q |-> Append(q, ft), need_tickle |-> q = <<>>]
scheduleNoLock(q, ft) ==
    [q |-> IF ft.fiber # 0 \/ ft.cb # 0 THEN Append(q, ft) ELSE q,
     need_tickle |-> q = <<>>]

\* Scheduler::schedule(begin, end) (Schedule.h:66-79): the loop under the lock.
RECURSIVE scheduleBatch(_, _, _)
scheduleBatch(q, cbs, need_tickle) ==
    IF cbs = <<>> THEN [q |-> q, need_tickle |-> need_tickle]
    ELSE LET r == scheduleNoLock(q, FiberAndThread(0, Head(cbs), -1))
         IN scheduleBatch(r.q, Tail(cbs), r.need_tickle \/ need_tickle)

\* ------------------------------------------------------------------ epoll
\* The kernel's interest list of the epoll instance: per fd, whether it is
\* registered, the events asked for, and the epoll_data (an FdContext*,
\* here the index of the FdContext in m_fdContexts).
NoInterest == [reg |-> FALSE, events |-> {}, ptr |-> 0]

\* epoll_ctl(2): ADD fails (EEXIST) for a registered fd, MOD and DEL fail
\* (ENOENT) for one that is not registered.  rt = 0 is success.
epoll_ctl(ep, op, fd, events, ptr) ==
    IF op = EPOLL_CTL_ADD
    THEN IF ep[fd].reg THEN [rt |-> -1, ep |-> ep]
         ELSE [rt |-> 0, ep |-> [ep EXCEPT ![fd] = [reg |-> TRUE, events |-> events, ptr |-> ptr]]]
    ELSE IF ~ep[fd].reg THEN [rt |-> -1, ep |-> ep]
    ELSE IF op = EPOLL_CTL_MOD
    THEN [rt |-> 0, ep |-> [ep EXCEPT ![fd] = [reg |-> TRUE, events |-> events, ptr |-> ptr]]]
    ELSE [rt |-> 0, ep |-> [ep EXCEPT ![fd] = NoInterest]]

\* -------------------------------------------------------------- FdContext
\* IOManager::FdContext::EventContext (iomanager.h:30-36); scheduler is
\* TRUE when the pointer is set (there is one scheduler).
EventContext(scheduler, fiber, cb) == [scheduler |-> scheduler, fiber |-> fiber, cb |-> cb]
EmptyContext == EventContext(FALSE, 0, 0)

\* new FdContext (iomanager.h:47-56, iomanager.cpp:150-157): contextResize
\* default-constructs the entry and never stores its index in fd.
NewFdContext == [read |-> EmptyContext, write |-> EmptyContext, fd |-> 0, events |-> NONE]

\* IOManager::FdContext::getContext (iomanager.cpp:65-76)
getContext(fd_ctx, event) == IF event = READ THEN fd_ctx.read ELSE fd_ctx.write
setContext(fd_ctx, event, ctx) ==
    IF event = READ THEN [fd_ctx EXCEPT !.read = ctx] ELSE [fd_ctx EXCEPT !.write = ctx]

\* IOManager::FdContext::resetContext (iomanager.cpp:79-83)
resetContext(ctx) == EmptyContext

\* IOManager::FdContext::triggerEvent (iomanager.cpp:86-100).  The callback
\* is handed over by pointer (swapped out of the context), the fiber by
\* value (the context keeps its handle).  ctx.scheduler == nullptr makes
\* the call a null dereference: segv.
triggerEvent(fd_ctx, event, q) ==
    LET ctx == getContext(fd_ctx, event)
        ft == IF ctx.cb # 0 THEN FiberAndThread(0, ctx.cb, -1)
              ELSE FiberAndThread(ctx.fiber, 0, -1)
        r == scheduleNoLock(q, ft)
        ctx2 == EventContext(FALSE, ctx.fiber, 0)
    IN [fd_ctx |-> setContext([fd_ctx EXCEPT !.events = fd_ctx.events \ {event}], event, ctx2),
        q |-> IF ctx.scheduler THEN r.q ELSE q,
        need_tickle |-> ctx.scheduler /\ r.need_tickle,
        segv |-> ~ctx.scheduler]

\* IOManager::contextResize (iomanager.cpp:150-157): the new length of the
\* vector; every empty entry gets a new FdContext.
contextResize(size) == size

\* The IOManager constructor's contextResize(32) (iomanager.cpp:131).
InitialContexts == 32

\* addEvent's lookup of the FdContext (iomanager.cpp:163-171), as the length
\* of the vector afterwards.  fd * 1.5 is a double; its conversion to size_t
\* drops the fraction.
Lookup_exactFit(size, fd) == IF size > fd THEN size ELSE contextResize(fd + 1)
Lookup(size, fd) == IF size > fd THEN size ELSE contextResize((3 * fd) \div 2)

\* delEvent, cancelEvent and cancelAll return false for an fd at or past the
\* end of the vector (iomanager.cpp:225-227, 261-263, 296-298).
InVector(size, fd) == size > fd

\* Descriptors for which the vector grows past its initial length: the
\* first one past the end, and one at the length the vector has after
\* growing for the first.
ShrinkFds == {InitialContexts, (3 * InitialContexts) \div 2}

\* An addEvent call between its steps: pc is "none" outside the call,
\* "resize" before the write lock is taken and "found" once fd_ctx is set;
\* ctx tells which of the FdContext objects made for fd the pointer is.
NoLookup == [pc |-> "none", fd |-> 0, event |-> READ, ctx |-> 0]

\* gen[fd] counts the FdContext objects of fd that resize dropped from the
\* vector, old[fd] is the last one dropped, at[t] is thread t's call.
NoLookups ==
    [gen |-> [fd \in Fds \cup ShrinkFds |-> 0],
     old |-> [fd \in Fds \cup ShrinkFds |-> NewFdContext],
     at |-> [t \in Tids |-> NoLookup]]

\* ----------------------------------------------------------- TimerManager
\* A Timer (timer.h:39-49); the manager's set holds timer ids, ordered by
\* Timer::Comparator (timer.cpp:45-55): m_next, then the object's address
\* (here the id).
NewTimer(ms, cb, recurring, now_ms) ==
    [m_ms |-> ms, m_next |-> now_ms + ms, m_cb |-> cb, m_recurring |-> recurring]
NoTimerObj == [m_ms |-> 0, m_next |-> 0, m_cb |-> 0, m_recurring |-> FALSE]

Comparator_byAddress(tm, a, b) == a < b
Comparator(tm, a, b) ==
    \/ tm[a].m_next < tm[b].m_next
    \/ tm[a].m_next = tm[b].m_next /\ a < b

\* *m_timers.begin()
TimersBegin(tm, set) == CHOOSE a \in set : \A b \in set \ {a} : Comparator(tm, a, b)

RECURSIVE TimersInOrder(_, _)
TimersInOrder(tm, set) ==
    IF set = {} THEN <<>>
    ELSE LET a == TimersBegin(tm, set) IN <<a>> \o TimersInOrder(tm, set \ {a})

\* TimerManager::getNextTimer (timer.cpp:158-173), the value returned.
getNextTimer(tm, set, now_ms) ==
    IF set = {} THEN NoTimer
    ELSE LET next == tm[TimersBegin(tm, set)]
         IN IF now_ms >= next.m_next THEN 0 ELSE next.m_next - now_ms

\* TimerManager::detectClockRollover (timer.cpp:240-250).  The subtraction
\* is unsigned: for prev < one hour it wraps to a value above every now_ms.
HourMs == 60 * 60 * 1000
detectClockRollover_never(now_ms, prev) == FALSE
detectClockRollover(now_ms, prev) ==
    now_ms < prev /\ (IF prev >= HourMs THEN now_ms < prev - HourMs ELSE TRUE)

\* TimerManager::listExpiredCb (timer.cpp:176-224)
RECURSIVE collectExpired(_, _, _, _, _)
collectExpired(expired, tm, set, cbs, now_ms) ==
    IF expired = <<>> THEN [tm |-> tm, set |-> set, cbs |-> cbs]
    ELSE LET t == Head(expired)
         IN IF tm[t].m_recurring
            THEN collectExpired(Tail(expired),
                                [tm EXCEPT ![t].m_next = now_ms + tm[t].m_ms],
                                set \cup {t}, Append(cbs, tm[t].m_cb), now_ms)
            ELSE collectExpired(Tail(expired), [tm EXCEPT ![t].m_cb = 0],
                                set, Append(cbs, tm[t].m_cb), now_ms)

listExpiredCb(tm, set, now_ms, prev) ==
    IF set = {} THEN [tm |-> tm, set |-> set, cbs |-> <<>>, prev |-> prev]
    ELSE LET rollover == detectClockRollover(now_ms, prev)
         IN IF ~rollover /\ tm[TimersBegin(tm, set)].m_next > now_ms
            THEN [tm |-> tm, set |-> set, cbs |-> <<>>, prev |-> now_ms]
            ELSE LET exp == IF rollover THEN set
                            ELSE {t \in set : tm[t].m_next <= now_ms}
                     r == collectExpired(TimersInOrder(tm, exp), tm, set \ exp, <<>>, now_ms)
                 IN [tm |-> r.tm, set |-> r.set, cbs |-> r.cbs, prev |-> now_ms]

\* TimerManager::addTimer(val, lock) (timer.cpp:226-237): the insertion, and
\* whether onTimerInsertedAtFront() is called.
addTimer_noFlag(tm, set, tickled, t) ==
    LET at_front == TimersBegin(tm, set \cup {t}) = t
    IN [set |-> set \cup {t}, tickled |-> TRUE, at_front |-> at_front]
addTimer(tm, set, tickled, t) ==
    LET at_front == TimersBegin(tm, set \cup {t}) = t /\ ~tickled
    IN [set |-> set \cup {t}, tickled |-> tickled \/ at_front, at_front |-> at_front]

\* Timer::cancel (timer.cpp:70-81)
Timer_cancel_always(tm, set, t) ==
    [rv |-> 1, tm |-> [tm EXCEPT ![t].m_cb = 0], set |-> set \ {t}]
Timer_cancel(tm, set, t) ==
    IF tm[t].m_cb # 0
    THEN [rv |-> 1, tm |-> [tm EXCEPT ![t].m_cb = 0], set |-> set \ {t}]
    ELSE [rv |-> 0, tm |-> tm, set |-> set]

\* Timer::refresh (timer.cpp:83-98)
Timer_refresh(tm, set, t, now_ms) ==
    IF tm[t].m_cb = 0 \/ ~(t \in set) THEN [rv |-> 0, tm |-> tm, set |-> set]
    ELSE [rv |-> 1, tm |-> [tm EXCEPT ![t].m_next = now_ms + tm[t].m_ms], set |-> set]

\* Timer::reset (timer.cpp:104-127)
Timer_reset(tm, set, t, ms, from_now, now_ms) ==
    IF ms = tm[t].m_ms /\ ~from_now THEN [rv |-> 0, tm |-> tm, set |-> set]
    ELSE IF tm[t].m_cb = 0 \/ ~(t \in set) THEN [rv |-> 0, tm |-> tm, set |-> set]
    ELSE LET start == IF from_now THEN now_ms ELSE tm[t].m_next - tm[t].m_ms
         IN [rv |-> 1, tm |-> [tm EXCEPT ![t].m_ms = ms, ![t].m_next = start + ms],
             set |-> set]

\* ------------------------------------------------------------------ state
VARIABLES
    kind,                 \* "Scheduler" or "IOManager": the dynamic type
    m_fibers,             \* Scheduler::m_fibers, the run queue
    m_activeThreadCount,
    m_idleThreadCount,
    m_stopping,
    m_autoStop,
    m_threadCount,
    m_rootThread,
    m_rootFiber,
    m_threads,            \* the Thread objects start() created
    fib,                  \* the Fiber objects
    s_fiber_count,
    th,                   \* per thread: control state and thread-locals
    nullSlot,             \* fate of the accesses through the null t_threadFiber
    m_fdContexts,
    fdSize,               \* m_fdContexts.size()
    fdLookup,             \* FdContext objects dropped from the vector; addEvent calls in their lookup
    epoll,
    m_pendingEventCount,
    tickleFds,            \* bytes in the wake pipe
    timers,               \* the Timer objects
    m_timers,
    m_tickled,
    m_previouseTime,
    now,                  \* GetCurrentMS()
    cbBody,               \* what each callback does when run
    ran,                  \* how often each callback's body was entered
    nops,                 \* API calls made by the caller thread so far
    last,                 \* the last API call and what it returned
    halt

schedVars == <<kind, m_fibers, m_activeThreadCount, m_idleThreadCount, m_stopping,
               m_autoStop, m_threadCount, m_rootThread, m_rootFiber, m_threads>>
fiberVars == <<fib, s_fiber_count, th, nullSlot>>
ioVars == <<m_fdContexts, fdSize, fdLookup, epoll, m_pendingEventCount, tickleFds>>
timerVars == <<timers, m_timers, m_tickled, m_previouseTime, now>>
envVars == <<cbBody, ran, nops, last, halt>>
vars == <<schedVars, fiberVars, ioVars, timerVars, envVars>>

\* ---------------------------------------------------------------- fibers
\* m_cb of the fibers the runtime itself creates.
IdleCb == "idle"
RunCb == "run"
NoCb == "null"
TaskCb(c) == <<"cb", c>>

\* A Fiber object (fiber.h:98-110).  ctx is the saved context m_ctx, as the
\* label at which the fiber continues; caller marks CallerMainFunc; m_stack
\* is TRUE when the fiber has a stack of its own; user is TRUE while the
\* program outside the scheduler holds a Fiber::ptr to it.  A destroyed
\* object (alive = FALSE) keeps the fields it died with until its storage
\* is used again.
NoFiber == [alive |-> FALSE, m_id |-> 0, m_state |-> INIT, m_cb |-> <<NoCb, 0>>,
            ctx |-> "none", caller |-> FALSE, m_stack |-> FALSE, user |-> FALSE]

EntryOf(cb) == IF cb[1] = IdleCb THEN "idle"
               ELSE IF cb[1] = RunCb THEN "run_start"
               ELSE "cb_start"

FreshFiber(fb) == CHOOSE f \in FiberIds : ~fb[f].alive /\ \A g \in FiberIds : g < f => fb[g].alive

\* Fiber::Fiber(cb, stacksize, use_caller) (fiber.cpp:81-110): the id is taken
\* from s_fiber_count, which is then incremented a second time.
NewFiber(cb, count, use_caller) ==
    [alive |-> TRUE, m_id |-> count + 1, m_state |-> INIT, m_cb |-> cb,
     ctx |-> EntryOf(cb), caller |-> use_caller, m_stack |-> TRUE, user |-> FALSE]

\* Fiber::Fiber() (fiber.cpp:67-79), the main fiber of a thread: no stack of
\* its own, no callback, id 0, state EXEC.
MainFiber ==
    [alive |-> TRUE, m_id |-> 0, m_state |-> EXEC, m_cb |-> <<NoCb, 0>>,
     ctx |-> "none", caller |-> FALSE, m_stack |-> FALSE, user |-> FALSE]

\* Fiber::~Fiber (fiber.cpp:112-128): the assertions of the destructor.
DtorOk(f) ==
    IF f.m_stack THEN f.m_state \in {TERM, INIT}
    ELSE f.m_cb = <<NoCb, 0>> /\ f.m_state = EXEC

\* Fiber::reset (fiber.cpp:131-147); the two assertions are the caller's.
FiberReset(f, cb) == [f EXCEPT !.m_cb = cb, !.ctx = "cb_start", !.m_state = INIT]

\* --------------------------------------------------------------- threads
\* Per thread: pc is where the thread executes; tctx is the context last
\* saved through t_threadFiber->m_ctx (the label where it continues); ft,
\* is_active, cb_fiber and idle_fiber are the locals of Scheduler::run;
\* t_fiber, t_scheduler and t_scheduler_fiber are the thread-locals, with
\* t_fiber = -1 for a pointer to a main fiber that is already destroyed;
\* events is the part of epoll_wait's result IOManager::idle has not
\* handled yet; mains counts the main fibers Fiber::GetThis() has
\* constructed on the thread.
NoThread == [pc |-> "none", tctx |-> "none", ft |-> NoTask,
             is_active |-> FALSE, cb_fiber |-> 0, idle_fiber |-> 0,
             t_fiber |-> 0, t_scheduler |-> FALSE, t_scheduler_fiber |-> 0,
             events |-> <<>>, mains |-> 0]

Running == halt = "no"

\* ------------------------------------------------------------------ Init
\* Scheduler::Scheduler (Schedule.cpp:26-58) for (threads, use_caller),
\* followed by start() (Schedule.cpp:87-109) when started: the IOManager
\* constructor calls it (iomanager.cpp:133).  The main fiber the constructor
\* creates with Fiber::GetThis() is destroyed with the temporary handle, so
\* the caller thread's t_fiber is null again.
InitScheduler(k, threads, use_caller, started) ==
    /\ kind = k
    /\ m_fibers = <<>>
    /\ m_activeThreadCount = 0
    /\ m_idleThreadCount = 0
    /\ m_stopping = ~started
    /\ m_autoStop = FALSE
    /\ m_threadCount = IF use_caller THEN threads - 1 ELSE threads
    /\ m_rootThread = IF use_caller THEN 0 ELSE -1
    /\ m_rootFiber = IF use_caller THEN 1 ELSE 0
    /\ m_threads = IF started THEN 1 .. m_threadCount ELSE {}
    /\ fib = [f \in FiberIds |->
                IF use_caller /\ f = 1 THEN NewFiber(<<RunCb, 0>>, 0, TRUE) ELSE NoFiber]
    /\ s_fiber_count = IF use_caller THEN 2 ELSE 0
    /\ th = [t \in Tids |->
                IF t = 0
                THEN [NoThread EXCEPT !.pc = "user", !.t_scheduler = use_caller,
                                      !.t_scheduler_fiber = IF use_caller THEN 1 ELSE 0,
                                      !.mains = IF use_caller THEN 1 ELSE 0]
                ELSE IF started /\ t \in 1 .. m_threadCount
                THEN [NoThread EXCEPT !.pc = "run_start"]
                ELSE NoThread]
    /\ nullSlot = "untested"

InitIO ==
    /\ m_fdContexts = [fd \in Fds |-> NewFdContext]
    /\ fdSize = InitialContexts
    /\ fdLookup = NoLookups
    /\ epoll = [fd \in Fds |-> NoInterest]
    /\ m_pendingEventCount = 0
    /\ tickleFds = 0

InitTimers ==
    /\ timers = [t \in TimerIds |-> NoTimerObj]
    /\ m_timers = {}
    /\ m_tickled = FALSE
    /\ m_previouseTime = 0
    /\ now = 0

\* What a callback does: kind (below, at CbStart), the descriptor and event
\* it waits for, the thread it switches to, and whether it throws where it
\* would otherwise return.
NoBody == [kind |-> "none", fd |-> 0, event |-> READ, raise |-> FALSE, thread |-> -1]
\* An API call of the caller thread: what was passed (fd, event, cb or the
\* batch cbs, thread), what it returned (rv) and whether it called tickle().
\* For the timer calls: the timer, and for listExpiredCb the clock value it
\* read and the m_previouseTime it found.
NoCall == [op |-> "none", fd |-> 0, event |-> READ, rv |-> 0, tickle |-> FALSE, cb |-> 0,
           cbs |-> <<>>, thread |-> -1, timer |-> 0, now_ms |-> 0, prev |-> 0]

InitEnv ==
    /\ cbBody = [c \in Cbs |-> NoBody]
    /\ ran = [c \in Cbs |-> 0]
    /\ nops = 0
    /\ last = NoCall
    /\ halt = "no"

\* -------------------------------------------------------------- tickle()
\* Scheduler::tickle (Schedule.cpp:341-343) only logs; IOManager::tickle
\* (iomanager.cpp:347-353) writes one byte unless no worker is idle.  The
\* pipe is only ever drained whole, so its count is kept up to MaxPipe.
tickle(k, pipe, idle) ==
    IF k = "IOManager" /\ SizeGtZero(idle) /\ pipe < MaxPipe THEN pipe + 1 ELSE pipe

RECURSIVE tickleTimes(_, _, _, _)
tickleTimes(n, k, pipe, idle) ==
    IF n = 0 THEN pipe ELSE tickleTimes(n - 1, k, tickle(k, pipe, idle), idle)

\* ------------------------------------------------------------ stopping()
\* Scheduler::stopping (Schedule.cpp:352-356)
Scheduler_stopping_noActive(autoStop, stopping_, q, active) ==
    autoStop /\ stopping_ /\ q = <<>>
Scheduler_stopping(autoStop, stopping_, q, active) ==
    autoStop /\ stopping_ /\ q = <<>> /\ SizeIsZero(active)

\* stopping(timeout) that does not look at the pending events.
IOManager_stopping_timeout_noPending(frames, timeout, pending) ==
    IF timeout = NoTimer THEN "true" ELSE "false"

\* IOManager::stopping(uint64_t&) (iomanager.cpp:355-359) and
\* IOManager::stopping() (iomanager.cpp:361-364).  The unqualified call in
\* the first is the virtual stopping(), i.e. the second, which calls the
\* first again: frames is the number of stack frames left, and "overflow"
\* is the evaluation that does not return.
StackFrames == 4
RECURSIVE IOManager_stopping_timeout(_, _, _)
RECURSIVE IOManager_stopping(_, _, _)
IOManager_stopping_timeout(frames, timeout, pending) ==
    IF frames = 0 THEN "overflow"
    ELSE IF ~(timeout = NoTimer) THEN "false"
    ELSE IF ~SizeIsZero(pending) THEN "false"
    ELSE IOManager_stopping(frames - 1, timeout, pending)
IOManager_stopping(frames, timeout, pending) ==
    IF frames = 0 THEN "overflow"
    ELSE IOManager_stopping_timeout(frames - 1, timeout, pending)

\* The virtual stopping() of the object, as "true", "false" or "overflow".
stopping(k, autoStop, stopping_, q, active, timeout, pending) ==
    IF k = "IOManager" THEN IOManager_stopping(StackFrames, timeout, pending)
    ELSE IF Scheduler_stopping(autoStop, stopping_, q, active) THEN "true" ELSE "false"

\* ------------------------------------------------- IOManager operations
\* Results: addEvent returns 0 or -1; the bool operations 1 (true) or 0.
\* assert marks a failed SYLAR_ASSERT, after which nothing else matters.

\* IOManager::addEvent (iomanager.cpp:159-221).  scheduler is
\* Scheduler::GetThis() of the calling thread, fiber is Fiber::GetThis()
\* and fiber_state its state (used when cb is empty).
addEvent_replace(fdcs, ep, pending, fd, event, cb, scheduler, fiber, fiber_state) ==
    LET fd_ctx == fdcs[fd]
        op == IF fd_ctx.events # NONE THEN EPOLL_CTL_MOD ELSE EPOLL_CTL_ADD
        r == epoll_ctl(ep, op, fd, fd_ctx.events \cup {event}, fd)
        bound == EventContext(scheduler, IF cb # 0 THEN 0 ELSE fiber, cb)
        fd_ctx2 == setContext([fd_ctx EXCEPT !.events = fd_ctx.events \cup {event}], event, bound)
    IN IF r.rt # 0
       THEN [rv |-> -1, fdcs |-> fdcs, ep |-> ep, pending |-> pending, assert |-> FALSE]
       ELSE [rv |-> 0, fdcs |-> [fdcs EXCEPT ![fd] = fd_ctx2], ep |-> r.ep,
             pending |-> IF event \in fd_ctx.events THEN pending ELSE SizeInc(pending),
             assert |-> FALSE]
addEvent_countFirst(fdcs, ep, pending, fd, event, cb, scheduler, fiber, fiber_state) ==
    LET fd_ctx == fdcs[fd]
        op == IF fd_ctx.events # NONE THEN EPOLL_CTL_MOD ELSE EPOLL_CTL_ADD
        r == epoll_ctl(ep, op, fd, fd_ctx.events \cup {event}, fd)
        bound == EventContext(scheduler, IF cb # 0 THEN 0 ELSE fiber, cb)
        fd_ctx2 == setContext([fd_ctx EXCEPT !.events = fd_ctx.events \cup {event}], event, bound)
    IN IF r.rt # 0
       THEN [rv |-> -1, fdcs |-> fdcs, ep |-> ep, pending |-> SizeInc(pending), assert |-> FALSE]
       ELSE [rv |-> 0, fdcs |-> [fdcs EXCEPT ![fd] = fd_ctx2], ep |-> r.ep,
             pending |-> SizeInc(pending), assert |-> event \in fd_ctx.events]
addEvent(fdcs, ep, pending, fd, event, cb, scheduler, fiber, fiber_state) ==
    LET fd_ctx == fdcs[fd]
        op == IF fd_ctx.events # NONE THEN EPOLL_CTL_MOD ELSE EPOLL_CTL_ADD
        r == epoll_ctl(ep, op, fd, fd_ctx.events \cup {event}, fd)
        event_ctx == getContext(fd_ctx, event)
        bound == IF cb # 0 THEN EventContext(scheduler, 0, cb)
                 ELSE EventContext(scheduler, fiber, 0)
        fd_ctx2 == setContext([fd_ctx EXCEPT !.events = fd_ctx.events \cup {event}], event, bound)
        same == [rv |-> -1, fdcs |-> fdcs, ep |-> ep, pending |-> pending, assert |-> FALSE]
    IN IF event \in fd_ctx.events THEN [same EXCEPT !.assert = TRUE]
       ELSE IF r.rt # 0 THEN same
       ELSE IF event_ctx # EmptyContext THEN [same EXCEPT !.assert = TRUE]
       ELSE IF cb = 0 /\ fiber_state # EXEC THEN [same EXCEPT !.assert = TRUE]
       ELSE [rv |-> 0, fdcs |-> [fdcs EXCEPT ![fd] = fd_ctx2], ep |-> r.ep,
             pending |-> SizeInc(pending), assert |-> FALSE]

\* IOManager::delEvent (iomanager.cpp:223-257)
delEvent_keepContext(fdcs, ep, pending, fd, event) ==
    LET fd_ctx == fdcs[fd]
        new_events == fd_ctx.events \ {event}
        op == IF new_events # NONE THEN EPOLL_CTL_MOD ELSE EPOLL_CTL_DEL
        r == epoll_ctl(ep, op, fd, new_events, fd)
        same == [rv |-> 0, fdcs |-> fdcs, ep |-> ep, pending |-> pending]
    IN IF ~(event \in fd_ctx.events) THEN same
       ELSE IF r.rt # 0 THEN same
       ELSE [rv |-> 1, fdcs |-> [fdcs EXCEPT ![fd] = [fd_ctx EXCEPT !.events = new_events]],
             ep |-> r.ep, pending |-> SizeDec(pending)]
delEvent(fdcs, ep, pending, fd, event) ==
    LET fd_ctx == fdcs[fd]
        new_events == fd_ctx.events \ {event}
        op == IF new_events # NONE THEN EPOLL_CTL_MOD ELSE EPOLL_CTL_DEL
        r == epoll_ctl(ep, op, fd, new_events, fd)
        fd_ctx2 == setContext([fd_ctx EXCEPT !.events = new_events], event,
                              resetContext(getContext(fd_ctx, event)))
        same == [rv |-> 0, fdcs |-> fdcs, ep |-> ep, pending |-> pending]
    IN IF ~(event \in fd_ctx.events) THEN same
       ELSE IF r.rt # 0 THEN same
       ELSE [rv |-> 1, fdcs |-> [fdcs EXCEPT ![fd] = fd_ctx2], ep |-> r.ep,
             pending |-> SizeDec(pending)]

\* IOManager::cancelEvent (iomanager.cpp:259-292): the context is reset, not
\* triggered, and fd_ctx->events is not assigned.
cancelEvent(fdcs, ep, pending, fd, event) ==
    LET fd_ctx == fdcs[fd]
        new_events == fd_ctx.events \ {event}
        op == IF new_events # NONE THEN EPOLL_CTL_MOD ELSE EPOLL_CTL_DEL
        r == epoll_ctl(ep, op, fd, new_events, fd)
        fd_ctx2 == setContext(fd_ctx, event, resetContext(getContext(fd_ctx, event)))
        same == [rv |-> 0, fdcs |-> fdcs, ep |-> ep, pending |-> pending]
    IN IF ~(event \in fd_ctx.events) THEN same
       ELSE IF r.rt # 0 THEN same
       ELSE [rv |-> 1, fdcs |-> [fdcs EXCEPT ![fd] = fd_ctx2], ep |-> r.ep,
             pending |-> SizeDec(pending)]

\* IOManager::cancelAll (iomanager.cpp:294-338): both contexts are reset, not
\* triggered; events is not cleared, so the closing assertion fails whenever
\* this point is reached.
cancelAll(fdcs, ep, pending, fd) ==
    LET fd_ctx == fdcs[fd]
        r == epoll_ctl(ep, EPOLL_CTL_DEL, fd, {}, fd)
        c1 == IF READ \in fd_ctx.events
              THEN [fd_ctx EXCEPT !.read = resetContext(fd_ctx.read)] ELSE fd_ctx
        p1 == IF READ \in fd_ctx.events THEN SizeDec(pending) ELSE pending
        c2 == IF WRITE \in c1.events
              THEN [c1 EXCEPT !.write = resetContext(c1.write)] ELSE c1
        p2 == IF WRITE \in c1.events THEN SizeDec(p1) ELSE p1
        same == [rv |-> 0, fdcs |-> fdcs, ep |-> ep, pending |-> pending, assert |-> FALSE]
    IN IF fd_ctx.events = NONE THEN same
       ELSE IF r.rt # 0 THEN same
       ELSE [rv |-> 1, fdcs |-> [fdcs EXCEPT ![fd] = c2], ep |-> r.ep,
             pending |-> p2, assert |-> ~(c2.events = NONE)]

\* ------------------------------------------------------------ halting
\* A failed SYLAR_ASSERT ("assert") or a fault ("segv") ends the process.
Halt(h) ==
    /\ halt' = h
    /\ UNCHANGED <<schedVars, fiberVars, ioVars, timerVars, cbBody, ran, nops, last>>

\* ------------------------------------------------- ownership of fibers
\* Whether some Fiber::ptr to fiber f is left: the program's own handle, a
\* run-queue entry, the locals ft, cb_fiber and idle_fiber of a thread in
\* run() (Schedule.cpp:209-214), an event context (iomanager.h:30-36),
\* m_rootFiber, or the handle cur that YieldToReady / YieldToHold keep on the
\* fiber's own stack while it is suspended there (fiber.cpp:205-218).
Owned(f, fb, q, ths, fdcs, root) ==
    \/ fb[f].user
    \/ \E i \in DOMAIN q : q[i].fiber = f
    \/ \E t \in Tids : ths[t].ft.fiber = f \/ ths[t].cb_fiber = f \/ ths[t].idle_fiber = f
    \/ \E fd \in Fds : fdcs[fd].read.fiber = f \/ fdcs[fd].write.fiber = f
    \/ root = f
    \/ fb[f].ctx = "cb_resumed"

\* A Fiber::ptr to f was given up.  If it was the last one the destructor
\* runs (fiber.cpp:112-128): the count goes down, then the assertions are
\* checked.
Release(fb, count, f, owned) ==
    IF f = 0 \/ owned THEN [fib |-> fb, count |-> count, assert |-> FALSE]
    ELSE [fib |-> [fb EXCEPT ![f].alive = FALSE], count |-> count - 1,
          assert |-> ~DtorOk(fb[f])]

\* ------------------------------------------------------- Scheduler::run
\* The scan without the note of an entry passed over for its affinity.
RECURSIVE scan_quiet(_, _, _, _, _)
scan_quiet(q, i, tid, fb, tickle_me) ==
    IF i > Len(q) THEN [idx |-> 0, tickle_me |-> tickle_me, assert |-> FALSE]
    ELSE IF q[i].thread # -1 /\ q[i].thread # tid THEN scan_quiet(q, i + 1, tid, fb, tickle_me)
    ELSE IF q[i].fiber = 0 /\ q[i].cb = 0
         THEN [idx |-> 0, tickle_me |-> tickle_me, assert |-> TRUE]
    ELSE IF q[i].fiber # 0 /\ fb[q[i].fiber].m_state = EXEC
         THEN scan_quiet(q, i + 1, tid, fb, tickle_me)
    ELSE [idx |-> i, tickle_me |-> tickle_me \/ i < Len(q), assert |-> FALSE]

\* The scan under the lock (Schedule.cpp:223-254) from position i on: the
\* index of the entry taken (0 if none) and tickle_me.
RECURSIVE scan(_, _, _, _, _)
scan(q, i, tid, fb, tickle_me) ==
    IF i > Len(q) THEN [idx |-> 0, tickle_me |-> tickle_me, assert |-> FALSE]
    ELSE IF q[i].thread # -1 /\ q[i].thread # tid THEN scan(q, i + 1, tid, fb, TRUE)
    ELSE IF q[i].fiber = 0 /\ q[i].cb = 0
         THEN [idx |-> 0, tickle_me |-> tickle_me, assert |-> TRUE]
    ELSE IF q[i].fiber # 0 /\ fb[q[i].fiber].m_state = EXEC
         THEN scan(q, i + 1, tid, fb, tickle_me)
    ELSE [idx |-> i, tickle_me |-> tickle_me \/ i < Len(q), assert |-> FALSE]

Erase(q, i) == SubSeq(q, 1, i - 1) \o SubSeq(q, i + 1, Len(q))

\* Fiber::swapIn (fiber.cpp:167-174) as the change of the thread: the
\* caller's context is saved where t_threadFiber->m_ctx points (tctx) and
\* the thread continues at the fiber's saved context.
swapIn(thr, f, after, ctx) == [thr EXCEPT !.t_fiber = f, !.tctx = after, !.pc = ctx]

\* Fiber::swapOut (fiber.cpp:177-182)
swapOut(thr) == [thr EXCEPT !.t_fiber = thr.t_scheduler_fiber, !.pc = thr.tctx]

\* Scheduler::run, entry (Schedule.cpp:193-214).  On a private worker
\* Fiber::GetThis() creates the thread's main fiber, which is destroyed with
\* the temporary handle (fiber.cpp:190-202): t_scheduler_fiber is left
\* pointing at it, t_fiber is null again and s_fiber_count is unchanged by it.
RunStart(t) ==
    /\ Running /\ th[t].pc = "run_start"
    /\ LET f == FreshFiber(fib)
       IN /\ fib' = [fib EXCEPT ![f] = NewFiber(<<IdleCb, 0>>, s_fiber_count, FALSE)]
          /\ th' = [th EXCEPT ![t].pc = "select", ![t].t_scheduler = TRUE,
                              ![t].t_scheduler_fiber = IF t # m_rootThread THEN -1 ELSE @,
                              ![t].mains = IF t # m_rootThread THEN @ + 1 ELSE @,
                              ![t].idle_fiber = f, ![t].cb_fiber = 0, ![t].ft = NoTask]
    /\ s_fiber_count' = s_fiber_count + 2
    /\ UNCHANGED <<schedVars, nullSlot, ioVars, timerVars, envVars>>

\* One pass of the selection phase (Schedule.cpp:216-259).
Select(t) ==
    /\ Running /\ th[t].pc = "select"
    /\ LET r == scan(m_fibers, 1, t, fib, FALSE)
       IN IF r.assert THEN Halt("assert")
          ELSE /\ th' = [th EXCEPT ![t].pc = "dispatch",
                                   ![t].ft = IF r.idx # 0 THEN m_fibers[r.idx] ELSE NoTask,
                                   ![t].is_active = r.idx # 0]
               /\ m_fibers' = IF r.idx # 0 THEN Erase(m_fibers, r.idx) ELSE m_fibers
               /\ m_activeThreadCount' = IF r.idx # 0 THEN SizeInc(m_activeThreadCount)
                                         ELSE m_activeThreadCount
               /\ tickleFds' = IF r.tickle_me THEN tickle(kind, tickleFds, m_idleThreadCount)
                               ELSE tickleFds
               /\ UNCHANGED <<kind, m_idleThreadCount, m_stopping, m_autoStop, m_threadCount,
                              m_rootThread, m_rootFiber, m_threads, fib, s_fiber_count,
                              nullSlot, m_fdContexts, fdSize, fdLookup, epoll, m_pendingEventCount,
                              timerVars, envVars>>

IsFiberCase(t) ==
    /\ th[t].ft.fiber # 0
    /\ fib[th[t].ft.fiber].m_state \notin {TERM, EXCEPT_}
IsCbCase(t) == ~IsFiberCase(t) /\ th[t].ft.cb # 0
IsIdleCase(t) == ~IsFiberCase(t) /\ ~IsCbCase(t)

\* The thread's next step goes through t_threadFiber->m_ctx.
AboutToSwap(t) ==
    \/ th[t].pc = "dispatch" /\ (IsFiberCase(t) \/ IsCbCase(t))
    \/ th[t].pc = "dispatch" /\ IsIdleCase(t) /\ ~th[t].is_active
                             /\ fib[th[t].idle_fiber].m_state # TERM
    \/ th[t].pc = "stop_call"

\* t_threadFiber is never assigned (fiber.cpp:200 compares instead), so
\* every swapcontext goes through a null handle.  The first such access
\* either faults or finds usable storage; later ones behave as the first.
NullThreadFiber(t) ==
    /\ Running /\ nullSlot = "untested" /\ AboutToSwap(t)
    /\ Halt("segv")

\* Case 1 (Schedule.cpp:264-267): resume the fiber taken from the queue.
DispatchFiber(t) ==
    /\ Running /\ th[t].pc = "dispatch" /\ IsFiberCase(t)
    /\ LET f == th[t].ft.fiber
       IN IF fib[f].m_state = EXEC THEN Halt("assert")
          ELSE /\ fib' = [fib EXCEPT ![f].m_state = EXEC]
               /\ th' = [th EXCEPT ![t] = swapIn(@, f, "after_fiber", fib[f].ctx)]
               /\ nullSlot' = "usable"
               /\ UNCHANGED <<schedVars, s_fiber_count, ioVars, timerVars, envVars>>

\* Case 2 (Schedule.cpp:282-292): run the callback in cb_fiber.
DispatchCb(t) ==
    /\ Running /\ th[t].pc = "dispatch" /\ IsCbCase(t)
    /\ LET reuse == th[t].cb_fiber # 0
           f == IF reuse THEN th[t].cb_fiber ELSE FreshFiber(fib)
           made == IF reuse THEN FiberReset(fib[f], TaskCb(th[t].ft.cb))
                   ELSE NewFiber(TaskCb(th[t].ft.cb), s_fiber_count, FALSE)
       IN IF reuse /\ fib[f].m_state \notin {TERM, INIT, EXCEPT_} THEN Halt("assert")
          ELSE /\ fib' = [fib EXCEPT ![f] = [made EXCEPT !.m_state = EXEC]]
               /\ s_fiber_count' = IF reuse THEN s_fiber_count ELSE s_fiber_count + 2
               /\ th' = [th EXCEPT ![t] = swapIn([@ EXCEPT !.cb_fiber = f, !.ft = NoTask],
                                                 f, "after_cb", "cb_start")]
               /\ nullSlot' = "usable"
               /\ UNCHANGED <<schedVars, ioVars, timerVars, envVars>>

\* Case 3 without the decrement for an entry that was taken and not run.
DispatchIdle_keepCount(t) ==
    /\ Running /\ th[t].pc = "dispatch" /\ IsIdleCase(t)
    /\ LET f == th[t].idle_fiber
       IN IF th[t].is_active
          THEN /\ m_activeThreadCount' = m_activeThreadCount
               /\ th' = [th EXCEPT ![t].pc = "select"]
               /\ UNCHANGED <<kind, m_fibers, m_idleThreadCount, m_stopping, m_autoStop,
                              m_threadCount, m_rootThread, m_rootFiber, m_threads, fib,
                              s_fiber_count, nullSlot, ioVars, timerVars, envVars>>
          ELSE IF fib[f].m_state = TERM
          THEN /\ th' = [th EXCEPT ![t].pc = "run_exit"]
               /\ UNCHANGED <<schedVars, fib, s_fiber_count, nullSlot, ioVars, timerVars,
                              envVars>>
          ELSE IF fib[f].m_state = EXEC THEN Halt("assert")
          ELSE /\ m_idleThreadCount' = SizeInc(m_idleThreadCount)
               /\ fib' = [fib EXCEPT ![f].m_state = EXEC]
               /\ th' = [th EXCEPT ![t] = swapIn(@, f, "after_idle", fib[f].ctx)]
               /\ nullSlot' = "usable"
               /\ UNCHANGED <<kind, m_fibers, m_activeThreadCount, m_stopping, m_autoStop,
                              m_threadCount, m_rootThread, m_rootFiber, m_threads,
                              s_fiber_count, ioVars, timerVars, envVars>>

\* Case 3 (Schedule.cpp:311-326): nothing to run.
DispatchIdle(t) ==
    /\ Running /\ th[t].pc = "dispatch" /\ IsIdleCase(t)
    /\ LET f == th[t].idle_fiber
       IN IF th[t].is_active
          THEN /\ m_activeThreadCount' = SizeDec(m_activeThreadCount)
               /\ th' = [th EXCEPT ![t].pc = "select"]
               /\ UNCHANGED <<kind, m_fibers, m_idleThreadCount, m_stopping, m_autoStop,
                              m_threadCount, m_rootThread, m_rootFiber, m_threads, fib,
                              s_fiber_count, nullSlot, ioVars, timerVars, envVars>>
          ELSE IF fib[f].m_state = TERM
          THEN /\ th' = [th EXCEPT ![t].pc = "run_exit"]
               /\ UNCHANGED <<schedVars, fib, s_fiber_count, nullSlot, ioVars, timerVars,
                              envVars>>
          ELSE IF fib[f].m_state = EXEC THEN Halt("assert")
          ELSE /\ m_idleThreadCount' = SizeInc(m_idleThreadCount)
               /\ fib' = [fib EXCEPT ![f].m_state = EXEC]
               /\ th' = [th EXCEPT ![t] = swapIn(@, f, "after_idle", fib[f].ctx)]
               /\ nullSlot' = "usable"
               /\ UNCHANGED <<kind, m_fibers, m_activeThreadCount, m_stopping, m_autoStop,
                              m_threadCount, m_rootThread, m_rootFiber, m_threads,
                              s_fiber_count, ioVars, timerVars, envVars>>

\* After the fiber gave the thread back (Schedule.cpp:268-280); ft.reset()
\* gives up the handle taken from the queue.  A thread whose assertion
\* failed is left at "aborted".
AfterFiber(t) ==
    /\ Running /\ th[t].pc = "after_fiber"
    /\ LET f == th[t].ft.fiber
           st == fib[f].m_state
           r == scheduleNoLock(m_fibers, FiberAndThread(f, 0, -1))
           q2 == IF st = READY THEN r.q ELSE m_fibers
           fb2 == IF st \notin {READY, TERM, EXCEPT_} THEN [fib EXCEPT ![f].m_state = HOLD]
                  ELSE fib
           th2 == [th EXCEPT ![t].pc = "select", ![t].ft = NoTask]
           rel == Release(fb2, s_fiber_count, f,
                          Owned(f, fb2, q2, th2, m_fdContexts, m_rootFiber))
       IN /\ m_activeThreadCount' = SizeDec(m_activeThreadCount)
          /\ m_fibers' = q2
          /\ tickleFds' = IF st = READY /\ r.need_tickle
                          THEN tickle(kind, tickleFds, m_idleThreadCount) ELSE tickleFds
          /\ fib' = rel.fib
          /\ s_fiber_count' = rel.count
          /\ th' = IF rel.assert THEN [th2 EXCEPT ![t].pc = "aborted"] ELSE th2
          /\ halt' = IF rel.assert THEN "assert" ELSE halt
    /\ UNCHANGED <<kind, m_idleThreadCount, m_stopping, m_autoStop, m_threadCount, m_rootThread,
                   m_rootFiber, m_threads, nullSlot, m_fdContexts, fdSize, fdLookup, epoll,
                   m_pendingEventCount, timerVars, cbBody, ran, nops, last>>

\* After cb_fiber gave the thread back (Schedule.cpp:293-308); cb_fiber is
\* kept (and reset) after TERM or EXCEPT and given up otherwise.
AfterCb(t) ==
    /\ Running /\ th[t].pc = "after_cb"
    /\ LET f == th[t].cb_fiber
           st == fib[f].m_state
           r == scheduleNoLock(m_fibers, FiberAndThread(f, 0, -1))
           q2 == IF st = READY THEN r.q ELSE m_fibers
           fb2 == IF st = READY THEN fib
                  ELSE IF st \in {EXCEPT_, TERM}
                  THEN [fib EXCEPT ![f] = FiberReset(@, <<NoCb, 0>>)]
                  ELSE [fib EXCEPT ![f].m_state = HOLD]
           th2 == [th EXCEPT ![t].pc = "select",
                             ![t].cb_fiber = IF st \in {EXCEPT_, TERM} THEN f ELSE 0]
           rel == Release(fb2, s_fiber_count, f,
                          Owned(f, fb2, q2, th2, m_fdContexts, m_rootFiber))
       IN /\ m_activeThreadCount' = SizeDec(m_activeThreadCount)
          /\ m_fibers' = q2
          /\ tickleFds' = IF st = READY /\ r.need_tickle
                          THEN tickle(kind, tickleFds, m_idleThreadCount) ELSE tickleFds
          /\ fib' = rel.fib
          /\ s_fiber_count' = rel.count
          /\ th' = IF rel.assert THEN [th2 EXCEPT ![t].pc = "aborted"] ELSE th2
          /\ halt' = IF rel.assert THEN "assert" ELSE halt
    /\ UNCHANGED <<kind, m_idleThreadCount, m_stopping, m_autoStop, m_threadCount, m_rootThread,
                   m_rootFiber, m_threads, nullSlot, m_fdContexts, fdSize, fdLookup, epoll,
                   m_pendingEventCount, timerVars, cbBody, ran, nops, last>>

\* After the idle fiber gave the thread back (Schedule.cpp:327-334).
AfterIdle(t) ==
    /\ Running /\ th[t].pc = "after_idle"
    /\ LET f == th[t].idle_fiber
       IN fib' = IF fib[f].m_state \notin {TERM, EXCEPT_} THEN [fib EXCEPT ![f].m_state = HOLD]
                 ELSE fib
    /\ m_idleThreadCount' = SizeDec(m_idleThreadCount)
    /\ th' = [th EXCEPT ![t].pc = "select"]
    /\ UNCHANGED <<kind, m_fibers, m_activeThreadCount, m_stopping, m_autoStop, m_threadCount,
                   m_rootThread, m_rootFiber, m_threads, s_fiber_count, nullSlot, ioVars,
                   timerVars, envVars>>

\* --------------------------------------------------------- fiber bodies
\* Fiber::MainFunc after m_cb() returned (fiber.cpp:234-248).
Finish(f) == [f EXCEPT !.m_cb = <<NoCb, 0>>, !.m_state = TERM, !.ctx = "never"]

\* Fiber::MainFunc after m_cb() threw (fiber.cpp:236-248): m_cb is kept.
Raise(f) == [f EXCEPT !.m_state = EXCEPT_, !.ctx = "never"]

\* The end of the callback body: it returns, or throws.
EndOfBody(f, body) == IF body.raise THEN Raise(f) ELSE Finish(f)

\* Fiber::YieldToHold / YieldToReady (fiber.cpp:205-218); the fiber
\* continues at label at when it is resumed.
Yield(f, st, at) == [f EXCEPT !.m_state = st, !.ctx = at]

\* Scheduler::switchTo (Schedule.cpp:374-388) up to the yield, called by a
\* fiber of this scheduler on thread tid: whether it returns at once, and
\* the run queue and need_tickle after schedule(Fiber::GetThis(), thread).
switchTo(q, cur, thread, tid) ==
    LET r == scheduleNoLock(q, FiberAndThread(cur, 0, thread))
    IN IF thread = -1 \/ thread = tid
       THEN [returns |-> TRUE, q |-> q, need_tickle |-> FALSE]
       ELSE [returns |-> FALSE, q |-> r.q, need_tickle |-> r.need_tickle]

\* Fiber::MainFunc entering m_cb() (fiber.cpp:225-233).  The callback
\*   "noop"   returns at once;
\*   "yield"  calls Fiber::YieldToReady() once and returns;
\*   "wait"   calls addEvent(fd, event) with no callback, and on success
\*            Fiber::YieldToHold(), then returns;
\*   "switch" calls Scheduler::GetThis()->switchTo(thread) and returns.
CbStart(t) ==
    /\ Running /\ th[t].pc = "cb_start"
    /\ LET cur == th[t].t_fiber
           c == fib[cur].m_cb[2]
           body == cbBody[c]
           r == addEvent(m_fdContexts, epoll, m_pendingEventCount, body.fd, body.event, 0,
                         th[t].t_scheduler, cur, fib[cur].m_state)
           sw == switchTo(m_fibers, cur, body.thread, t)
       IN IF body.kind = "wait" /\ r.assert THEN Halt("assert")
          ELSE /\ ran' = [ran EXCEPT ![c] = @ + 1]
               /\ IF body.kind = "wait"
                  THEN /\ m_fdContexts' = r.fdcs /\ epoll' = r.ep
                       /\ m_pendingEventCount' = r.pending
                       /\ fdSize' = Lookup(fdSize, body.fd) /\ fdLookup' = fdLookup
                  ELSE UNCHANGED <<m_fdContexts, fdSize, fdLookup, epoll, m_pendingEventCount>>
               /\ IF body.kind = "switch"
                  THEN /\ m_fibers' = sw.q
                       /\ tickleFds' = IF sw.need_tickle
                                       THEN tickle(kind, tickleFds, m_idleThreadCount)
                                       ELSE tickleFds
                  ELSE UNCHANGED <<m_fibers, tickleFds>>
               /\ IF (body.kind = "wait" /\ r.rv = 0) \/ (body.kind = "switch" /\ ~sw.returns)
                  THEN /\ th' = [th EXCEPT ![t].pc = "cb_yield"]
                       /\ fib' = fib
                  ELSE IF body.kind = "yield"
                  THEN /\ fib' = [fib EXCEPT ![cur] = Yield(@, READY, "cb_resumed")]
                       /\ th' = [th EXCEPT ![t] = swapOut(@)]
                  ELSE /\ fib' = [fib EXCEPT ![cur] = EndOfBody(@, body)]
                       /\ th' = [th EXCEPT ![t] = swapOut(@)]
               /\ UNCHANGED <<kind, m_activeThreadCount, m_idleThreadCount, m_stopping,
                              m_autoStop, m_threadCount, m_rootThread, m_rootFiber, m_threads,
                              s_fiber_count, nullSlot, timerVars, cbBody, nops, last, halt>>

\* Fiber::YieldToHold (fiber.cpp:213-216) in a callback: the assertion and
\* cur->m_state = HOLD.  The context is saved only by the swapOut that
\* follows; until then another thread sees a fiber that is not EXEC.
CbYield(t) ==
    /\ Running /\ th[t].pc = "cb_yield"
    /\ LET cur == th[t].t_fiber
       IN IF fib[cur].m_state # EXEC THEN Halt("assert")
          ELSE /\ fib' = [fib EXCEPT ![cur].m_state = HOLD]
               /\ th' = [th EXCEPT ![t].pc = "cb_swapout"]
               /\ UNCHANGED <<schedVars, s_fiber_count, nullSlot, ioVars, timerVars, envVars>>

\* cur->swapOut() of that YieldToHold (fiber.cpp:217, 177-182): the fiber's
\* context is saved and the thread is back in its scheduling loop.
CbSwapOut(t) ==
    /\ Running /\ th[t].pc = "cb_swapout"
    /\ fib' = [fib EXCEPT ![th[t].t_fiber].ctx = "cb_resumed"]
    /\ th' = [th EXCEPT ![t] = swapOut(@)]
    /\ UNCHANGED <<schedVars, s_fiber_count, nullSlot, ioVars, timerVars, envVars>>

\* Two threads execute on the stack of one fiber: a worker swapped into a
\* fiber whose swapOut on another thread had not saved the context yet.
\* This is undefined behaviour; the process faults, or runs on as the
\* other actions describe.
OnTwoThreads(f) == Cardinality({t \in Tids : th[t].t_fiber = f}) > 1
SharedStackFault ==
    /\ Running /\ \E f \in FiberIds : OnTwoThreads(f)
    /\ Halt("segv")

\* The callback returns, or throws, after it was resumed.
CbResumed(t) ==
    /\ Running /\ th[t].pc = "cb_resumed"
    /\ LET cur == th[t].t_fiber
       IN /\ fib' = [fib EXCEPT ![cur] = EndOfBody(@, cbBody[fib[cur].m_cb[2]])]
          /\ th' = [th EXCEPT ![t] = swapOut(@)]
    /\ UNCHANGED <<schedVars, s_fiber_count, nullSlot, ioVars, timerVars, envVars>>

\* Scheduler::idle (Schedule.cpp:362-368), one turn of its loop.
SchedulerIdle(t) ==
    /\ Running /\ th[t].pc = "idle" /\ kind = "Scheduler"
    /\ LET cur == th[t].t_fiber
       IN /\ fib' = IF Scheduler_stopping(m_autoStop, m_stopping, m_fibers, m_activeThreadCount)
                    THEN [fib EXCEPT ![cur] = Finish(@)]
                    ELSE [fib EXCEPT ![cur] = Yield(@, HOLD, "idle")]
          /\ th' = [th EXCEPT ![t] = swapOut(@)]
    /\ UNCHANGED <<schedVars, s_fiber_count, nullSlot, ioVars, timerVars, envVars>>

\* Scheduler::run returns (Schedule.cpp:319-322, 336).  A private worker's
\* thread ends.  On the caller thread run() was the root fiber's callback:
\* CallerMainFunc (fiber.cpp:259-277) marks the fiber TERM and back() jumps
\* to the context saved in t_threadFiber->m_ctx, which is stop()'s only if
\* no swapIn has overwritten it since call().
\* The locals cb_fiber and idle_fiber are destroyed on the way out.
RunExit(t) ==
    /\ Running /\ th[t].pc = "run_exit"
    /\ LET th1 == [th EXCEPT ![t].cb_fiber = 0]
           rel1 == Release(fib, s_fiber_count, th[t].cb_fiber,
                           Owned(th[t].cb_fiber, fib, m_fibers, th1, m_fdContexts, m_rootFiber))
           th2 == [th1 EXCEPT ![t].idle_fiber = 0]
           rel2 == Release(rel1.fib, rel1.count, th[t].idle_fiber,
                           Owned(th[t].idle_fiber, rel1.fib, m_fibers, th2, m_fdContexts,
                                 m_rootFiber))
           failed == rel1.assert \/ rel2.assert
       IN /\ s_fiber_count' = rel2.count
          /\ halt' = IF failed THEN "assert" ELSE halt
          /\ IF failed
             THEN /\ fib' = rel2.fib
                  /\ th' = [th2 EXCEPT ![t].pc = "aborted"]
             ELSE IF t = m_rootThread
             THEN /\ fib' = [rel2.fib EXCEPT ![m_rootFiber] = Finish(@)]
                  /\ th' = [th2 EXCEPT ![t].t_fiber = 0,
                                       ![t].pc = IF th[t].tctx = "stop_after_call"
                                                 THEN "stop_join" ELSE "stale_back"]
             ELSE /\ fib' = rel2.fib
                  /\ th' = [th2 EXCEPT ![t].pc = "exited"]
    /\ UNCHANGED <<schedVars, nullSlot, ioVars, timerVars, cbBody, ran, nops, last>>

\* back() into a context whose frame (run(), after a swapIn) has returned:
\* undefined behaviour.  The thread faults, or runs on and never comes back
\* to stop().
StaleBackFault(t) ==
    /\ Running /\ th[t].pc = "stale_back"
    /\ Halt("segv")
StaleBackLost(t) ==
    /\ Running /\ th[t].pc = "stale_back"
    /\ th' = [th EXCEPT ![t].pc = "lost"]
    /\ UNCHANGED <<schedVars, fib, s_fiber_count, nullSlot, ioVars, timerVars, envVars>>

\* ------------------------------------------------------ IOManager::idle
\* What epoll_wait can report.  An entry of the interest list is reported
\* with a non-empty set of the bits asked for, or with EPOLLERR or EPOLLHUP,
\* which are reported whether asked for or not; the tickle pipe is reported
\* when it holds a byte.  A report carries the epoll_data stored with the
\* entry.
EPOLLERR == "ERR"
EPOLLHUP == "HUP"
ReportBits(interest) == ((SUBSET interest) \ {{}}) \cup {{EPOLLERR}, {EPOLLHUP}}
Reports(ep, pipe) ==
    {[tickle |-> FALSE, src |-> fd, ptr |-> ep[fd].ptr, bits |-> b] :
        fd \in {x \in Fds : ep[x].reg}, b \in UNION {ReportBits(ep[x].events) : x \in Fds}}
    \cup (IF pipe > 0 THEN {[tickle |-> TRUE, src |-> -1, ptr |-> 0, bits |-> {READ}]} ELSE {})
Batches(ep, pipe) ==
    {b \in UNION {[1 .. n -> Reports(ep, pipe)] : n \in 0 .. MaxBatch} :
        /\ \A i, j \in DOMAIN b : i # j => b[i].src # b[j].src
        /\ \A i \in DOMAIN b :
              b[i].tickle \/ b[i].bits \in ReportBits(ep[b[i].src].events)}

\* One iteration of the event loop (iomanager.cpp:433-499) for a report of
\* a descriptor.  fault is "assert" when triggerEvent's assertion fails and
\* "segv" when it calls through a null scheduler; tickles counts the
\* tickle() calls made by schedule().
triggerStep(st, event) ==
    LET fd_ctx == st.fdcs[st.ptr]
        r == triggerEvent(fd_ctx, event, st.q)
    IN IF st.fault # "no" THEN st
       ELSE IF ~(event \in fd_ctx.events) THEN [st EXCEPT !.fault = "assert"]
       ELSE IF r.segv THEN [st EXCEPT !.fault = "segv"]
       ELSE [st EXCEPT !.fdcs = [st.fdcs EXCEPT ![st.ptr] = r.fd_ctx],
                       !.q = r.q,
                       !.tickles = IF r.need_tickle THEN @ + 1 ELSE @,
                       !.pending = SizeDec(@)]

handleEvent(fdcs, ep, pending, q, ev) ==
    LET fd_ctx == fdcs[ev.ptr]
        bits == IF ev.bits \cap {EPOLLERR, EPOLLHUP} # {}
                THEN ev.bits \cup (Event \cap fd_ctx.events) ELSE ev.bits
        real_events == bits \cap Event
        left_events == fd_ctx.events \ real_events
        op == IF left_events # NONE THEN EPOLL_CTL_MOD ELSE EPOLL_CTL_DEL
        r == epoll_ctl(ep, op, fd_ctx.fd, left_events, ev.ptr)
        st0 == [fdcs |-> fdcs, ep |-> ep, pending |-> pending, q |-> q, ptr |-> ev.ptr,
                tickles |-> 0, fault |-> "no"]
        st1 == [st0 EXCEPT !.ep = r.ep]
        st2 == IF READ \in real_events THEN triggerStep(st1, READ) ELSE st1
        st3 == IF WRITE \in real_events THEN triggerStep(st2, WRITE) ELSE st2
    IN IF fd_ctx.events \cap real_events = NONE THEN st0
       ELSE IF r.rt # 0 THEN st0
       ELSE st3

\* The top of idle's loop (iomanager.cpp:382-425): stopping(next_timeout),
\* epoll_wait, then the expired timers.  An evaluation of stopping that
\* does not return exhausts the stack.
IOIdleWait(t) ==
    /\ Running /\ th[t].pc = "idle" /\ kind = "IOManager"
    /\ LET timeout == getNextTimer(timers, m_timers, now)
           res == IOManager_stopping_timeout(StackFrames, timeout, m_pendingEventCount)
           le == listExpiredCb(timers, m_timers, now, m_previouseTime)
           sb == scheduleBatch(m_fibers, le.cbs, FALSE)
       IN IF res = "overflow" THEN Halt("segv")
          ELSE IF res = "true"
          THEN /\ fib' = [fib EXCEPT ![th[t].t_fiber] = Finish(@)]
               /\ th' = [th EXCEPT ![t] = swapOut(@)]
               /\ m_tickled' = FALSE
               /\ UNCHANGED <<schedVars, s_fiber_count, nullSlot, ioVars, timers, m_timers,
                              m_previouseTime, now, envVars>>
          ELSE /\ \E batch \in Batches(epoll, tickleFds) :
                     th' = [th EXCEPT ![t].pc = "idle_events", ![t].events = batch]
               /\ m_tickled' = FALSE
               /\ timers' = le.tm /\ m_timers' = le.set /\ m_previouseTime' = le.prev
               /\ m_fibers' = sb.q
               /\ tickleFds' = IF sb.need_tickle
                               THEN tickle(kind, tickleFds, m_idleThreadCount) ELSE tickleFds
               /\ UNCHANGED <<kind, m_activeThreadCount, m_idleThreadCount, m_stopping,
                              m_autoStop, m_threadCount, m_rootThread, m_rootFiber, m_threads,
                              fib, s_fiber_count, nullSlot, m_fdContexts, fdSize, fdLookup, epoll,
                              m_pendingEventCount, now, envVars>>

\* The next report of the batch (iomanager.cpp:433-499).
IOIdleEvent(t) ==
    /\ Running /\ th[t].pc = "idle_events" /\ th[t].events # <<>>
    /\ LET ev == Head(th[t].events)
           r == handleEvent(m_fdContexts, epoll, m_pendingEventCount, m_fibers, ev)
       IN IF ev.tickle
          THEN /\ tickleFds' = 0
               /\ th' = [th EXCEPT ![t].events = Tail(@)]
               /\ UNCHANGED <<schedVars, fib, s_fiber_count, nullSlot, m_fdContexts, fdSize, fdLookup, epoll,
                              m_pendingEventCount, timerVars, envVars>>
          ELSE IF r.fault # "no" THEN Halt(r.fault)
          ELSE /\ m_fdContexts' = r.fdcs /\ epoll' = r.ep
               /\ m_pendingEventCount' = r.pending
               /\ fdSize' = fdSize /\ fdLookup' = fdLookup
               /\ m_fibers' = r.q
               /\ tickleFds' = tickleTimes(r.tickles, kind, tickleFds, m_idleThreadCount)
               /\ th' = [th EXCEPT ![t].events = Tail(@)]
               /\ UNCHANGED <<kind, m_activeThreadCount, m_idleThreadCount, m_stopping,
                              m_autoStop, m_threadCount, m_rootThread, m_rootFiber, m_threads,
                              fib, s_fiber_count, nullSlot, timerVars, envVars>>

\* The end of the iteration (iomanager.cpp:502-506): swapOut without a
\* change of state.
IOIdleSwapOut(t) ==
    /\ Running /\ th[t].pc = "idle_events" /\ th[t].events = <<>>
    /\ fib' = [fib EXCEPT ![th[t].t_fiber].ctx = "idle"]
    /\ th' = [th EXCEPT ![t] = swapOut(@)]
    /\ UNCHANGED <<schedVars, s_fiber_count, nullSlot, ioVars, timerVars, envVars>>

\* ---------------------------------------------------- the caller thread
\* The caller thread (thread 0) makes up to MaxOps API calls, one after the
\* other, while the workers run.
UserReady == Running /\ th[0].pc = "user" /\ nops < MaxOps

FreeCbs == {c \in Cbs : cbBody[c].kind = "none"}
FreshCb == CHOOSE c \in FreeCbs : \A d \in FreeCbs : c <= d

Noop == [NoBody EXCEPT !.kind = "noop"]
NullFn == [NoBody EXCEPT !.kind = "null"]

\* schedule(cb, thread) (Schedule.h:48-59) with a new callback whose body is
\* body, or with an empty std::function when body is NullFn.
UserSchedule(body, thread) ==
    /\ UserReady /\ (body = NullFn \/ FreeCbs # {})
    /\ LET cb == IF body = NullFn THEN 0 ELSE FreshCb
           r == scheduleNoLock(m_fibers, FiberAndThread(0, cb, thread))
       IN /\ m_fibers' = r.q
          /\ tickleFds' = IF r.need_tickle THEN tickle(kind, tickleFds, m_idleThreadCount)
                          ELSE tickleFds
          /\ cbBody' = IF cb = 0 THEN cbBody ELSE [cbBody EXCEPT ![cb] = body]
          /\ last' = [NoCall EXCEPT !.op = "schedule", !.cb = cb, !.thread = thread,
                                    !.tickle = r.need_tickle]
    /\ nops' = nops + 1
    /\ UNCHANGED <<kind, m_activeThreadCount, m_idleThreadCount, m_stopping, m_autoStop,
                   m_threadCount, m_rootThread, m_rootFiber, m_threads, fiberVars,
                   m_fdContexts, fdSize, fdLookup, epoll, m_pendingEventCount, timerVars, ran, halt>>

\* schedule(f) (Schedule.h:48-59) with a fiber handle the program keeps:
\* f = 0 stands for a fiber constructed for the call, Fiber::ptr f(new
\* Fiber(cb)) (fiber.cpp:81-110) with a callback that only returns; any
\* other f is a fiber the program constructed before, in whatever state it
\* is now.  schedule takes the handle by value, so the program's stays.
UserScheduleFiber(f) ==
    /\ UserReady
    /\ IF f = 0 THEN FreeCbs # {} ELSE fib[f].alive /\ fib[f].user
    /\ LET g == IF f = 0 THEN FreshFiber(fib) ELSE f
           made == [NewFiber(TaskCb(FreshCb), s_fiber_count, FALSE) EXCEPT !.user = TRUE]
           r == scheduleNoLock(m_fibers, FiberAndThread(g, 0, -1))
       IN /\ fib' = IF f = 0 THEN [fib EXCEPT ![g] = made] ELSE fib
          /\ s_fiber_count' = IF f = 0 THEN s_fiber_count + 2 ELSE s_fiber_count
          /\ cbBody' = IF f = 0 THEN [cbBody EXCEPT ![FreshCb] = Noop] ELSE cbBody
          /\ m_fibers' = r.q
          /\ tickleFds' = IF r.need_tickle THEN tickle(kind, tickleFds, m_idleThreadCount)
                          ELSE tickleFds
          /\ last' = [NoCall EXCEPT !.op = "schedule", !.rv = g, !.tickle = r.need_tickle]
    /\ nops' = nops + 1
    /\ UNCHANGED <<kind, m_activeThreadCount, m_idleThreadCount, m_stopping, m_autoStop,
                   m_threadCount, m_rootThread, m_rootFiber, m_threads, th, nullSlot,
                   m_fdContexts, fdSize, fdLookup, epoll, m_pendingEventCount, timerVars, ran, halt>>

\* The batches passed to schedule(begin, end): new callbacks ("cb") and
\* empty functions ("null").
BatchPatterns == {<<>>, <<"cb">>, <<"null">>, <<"cb", "cb">>, <<"null", "cb">>, <<"cb", "null">>}

RECURSIVE BatchCbs(_, _)
BatchCbs(pattern, next) ==
    IF pattern = <<>> THEN <<>>
    ELSE IF Head(pattern) = "null" THEN <<0>> \o BatchCbs(Tail(pattern), next)
    ELSE <<next>> \o BatchCbs(Tail(pattern), next + 1)

SeqRange(q) == {q[i] : i \in DOMAIN q}

\* schedule(begin, end) (Schedule.h:66-79)
UserScheduleBatch(pattern) ==
    /\ UserReady /\ FreeCbs # {}
    /\ LET cbs == BatchCbs(pattern, FreshCb)
           r == scheduleBatch(m_fibers, cbs, FALSE)
       IN /\ SeqRange(cbs) \ {0} \subseteq FreeCbs
          /\ m_fibers' = r.q
          /\ tickleFds' = IF r.need_tickle THEN tickle(kind, tickleFds, m_idleThreadCount)
                          ELSE tickleFds
          /\ cbBody' = [c \in Cbs |-> IF c \in SeqRange(cbs) THEN Noop ELSE cbBody[c]]
          /\ last' = [NoCall EXCEPT !.op = "scheduleBatch", !.cbs = cbs,
                                    !.tickle = r.need_tickle]
    /\ nops' = nops + 1
    /\ UNCHANGED <<kind, m_activeThreadCount, m_idleThreadCount, m_stopping, m_autoStop,
                   m_threadCount, m_rootThread, m_rootFiber, m_threads, fiberVars,
                   m_fdContexts, fdSize, fdLookup, epoll, m_pendingEventCount, timerVars, ran, halt>>

\* Scheduler::start (Schedule.cpp:87-109); a new thread starts in run().
UserStart ==
    /\ UserReady
    /\ IF ~m_stopping
       THEN UNCHANGED <<m_stopping, m_threads, th, halt>>
       ELSE IF m_threads # {}
       THEN /\ halt' = "assert" /\ UNCHANGED <<m_stopping, m_threads, th>>
       ELSE /\ m_stopping' = FALSE
            /\ m_threads' = 1 .. m_threadCount
            /\ th' = [t \in Tids |-> IF t \in 1 .. m_threadCount
                                     THEN [NoThread EXCEPT !.pc = "run_start"] ELSE th[t]]
            /\ halt' = halt
    /\ nops' = nops + 1
    /\ last' = [NoCall EXCEPT !.op = "start"]
    /\ UNCHANGED <<kind, m_fibers, m_activeThreadCount, m_idleThreadCount, m_autoStop,
                   m_threadCount, m_rootThread, m_rootFiber, fib, s_fiber_count, nullSlot,
                   ioVars, timerVars, cbBody, ran>>

\* Scheduler::stop, up to the tickles (Schedule.cpp:119-159).  rv = 0 in
\* last marks a stop() that has not returned yet.
StopBegin ==
    /\ UserReady
    /\ LET quick == /\ m_rootFiber # 0 /\ m_threadCount = 0
                    /\ fib[m_rootFiber].m_state \in {TERM, INIT}
           res == stopping(kind, TRUE, TRUE, m_fibers, m_activeThreadCount,
                           getNextTimer(timers, m_timers, now), m_pendingEventCount)
           n == m_threadCount + (IF m_rootFiber # 0 THEN 1 ELSE 0)
           bound == th[0].t_scheduler
       IN /\ nops' = nops + 1
          /\ m_autoStop' = TRUE
          /\ IF quick /\ res = "overflow"
             THEN /\ halt' = "segv"
                  /\ last' = [NoCall EXCEPT !.op = "stop"]
                  /\ UNCHANGED <<m_stopping, tickleFds, th, m_tickled>>
             ELSE IF quick /\ res = "true"
             THEN /\ m_stopping' = TRUE
                  /\ last' = [NoCall EXCEPT !.op = "stop", !.rv = 1]
                  /\ m_tickled' = IF kind = "IOManager" THEN FALSE ELSE m_tickled
                  /\ UNCHANGED <<tickleFds, th, halt>>
             ELSE IF (m_rootThread # -1 /\ ~bound) \/ (m_rootThread = -1 /\ bound)
             THEN /\ halt' = "assert"
                  /\ last' = [NoCall EXCEPT !.op = "stop"]
                  /\ UNCHANGED <<m_stopping, tickleFds, th, m_tickled>>
             ELSE /\ m_stopping' = TRUE
                  /\ tickleFds' = tickleTimes(n, kind, tickleFds, m_idleThreadCount)
                  /\ th' = [th EXCEPT ![0].pc = IF m_rootFiber # 0 THEN "stop_check"
                                                ELSE "stop_join"]
                  /\ last' = [NoCall EXCEPT !.op = "stop"]
                  /\ m_tickled' = IF quick /\ kind = "IOManager" THEN FALSE ELSE m_tickled
                  /\ halt' = halt
    /\ UNCHANGED <<kind, m_fibers, m_activeThreadCount, m_idleThreadCount, m_threadCount,
                   m_rootThread, m_rootFiber, m_threads, fib, s_fiber_count, nullSlot,
                   m_fdContexts, fdSize, fdLookup, epoll, m_pendingEventCount, timers, m_timers,
                   m_previouseTime, now, cbBody, ran>>

\* if (!stopping()) (Schedule.cpp:163-164)
StopCheck ==
    /\ Running /\ th[0].pc = "stop_check"
    /\ LET res == stopping(kind, m_autoStop, m_stopping, m_fibers, m_activeThreadCount,
                           getNextTimer(timers, m_timers, now), m_pendingEventCount)
       IN IF res = "overflow" THEN Halt("segv")
          ELSE /\ th' = [th EXCEPT ![0].pc = IF res = "true" THEN "stop_join" ELSE "stop_call"]
               /\ m_tickled' = IF kind = "IOManager" THEN FALSE ELSE m_tickled
               /\ UNCHANGED <<schedVars, fib, s_fiber_count, nullSlot, ioVars, timers, m_timers,
                              m_previouseTime, now, envVars>>

\* m_rootFiber->call() (Schedule.cpp:165, fiber.cpp:150-156)
StopCall ==
    /\ Running /\ th[0].pc = "stop_call"
    /\ fib' = [fib EXCEPT ![m_rootFiber].m_state = EXEC]
    /\ th' = [th EXCEPT ![0] = swapIn(@, m_rootFiber, "stop_after_call", fib[m_rootFiber].ctx)]
    /\ nullSlot' = "usable"
    /\ UNCHANGED <<schedVars, s_fiber_count, ioVars, timerVars, envVars>>

\* The joins (Schedule.cpp:170-180), after which stop() returns.
StopJoin ==
    /\ Running /\ th[0].pc = "stop_join"
    /\ \A w \in m_threads : th[w].pc = "exited"
    /\ m_threads' = {}
    /\ th' = [th EXCEPT ![0].pc = "user"]
    /\ last' = [last EXCEPT !.rv = 1]
    /\ UNCHANGED <<kind, m_fibers, m_activeThreadCount, m_idleThreadCount, m_stopping,
                   m_autoStop, m_threadCount, m_rootThread, m_rootFiber, fib, s_fiber_count,
                   nullSlot, ioVars, timerVars, cbBody, ran, nops, halt>>

\* IOManager::addEvent called with a new callback.
UserAddEvent(fd, event) ==
    /\ UserReady /\ FreeCbs # {}
    /\ LET cb == FreshCb
           r == addEvent(m_fdContexts, epoll, m_pendingEventCount, fd, event, cb,
                         th[0].t_scheduler, 0, EXEC)
       IN /\ m_fdContexts' = r.fdcs /\ epoll' = r.ep /\ m_pendingEventCount' = r.pending
          /\ fdSize' = Lookup(fdSize, fd) /\ fdLookup' = fdLookup
          /\ halt' = IF r.assert THEN "assert" ELSE halt
          /\ cbBody' = [cbBody EXCEPT ![cb] = Noop]
          /\ last' = [NoCall EXCEPT !.op = "addEvent", !.fd = fd, !.event = event,
                                    !.rv = r.rv, !.cb = cb]
    /\ nops' = nops + 1
    /\ UNCHANGED <<schedVars, fiberVars, tickleFds, timerVars, ran>>

\* IOManager::delEvent; cb in last is the callback that was bound.
UserDelEvent(fd, event) ==
    /\ UserReady
    /\ LET r == IF InVector(fdSize, fd)
                THEN delEvent(m_fdContexts, epoll, m_pendingEventCount, fd, event)
                ELSE [rv |-> 0, fdcs |-> m_fdContexts, ep |-> epoll,
                      pending |-> m_pendingEventCount]
       IN /\ m_fdContexts' = r.fdcs /\ epoll' = r.ep /\ m_pendingEventCount' = r.pending
          /\ fdSize' = fdSize /\ fdLookup' = fdLookup
          /\ last' = [NoCall EXCEPT !.op = "delEvent", !.fd = fd, !.event = event,
                                    !.rv = r.rv,
                                    !.cb = getContext(m_fdContexts[fd], event).cb]
    /\ nops' = nops + 1
    /\ UNCHANGED <<schedVars, fiberVars, tickleFds, timerVars, cbBody, ran, halt>>

\* IOManager::cancelEvent
UserCancelEvent(fd, event) ==
    /\ UserReady
    /\ LET r == IF InVector(fdSize, fd)
                THEN cancelEvent(m_fdContexts, epoll, m_pendingEventCount, fd, event)
                ELSE [rv |-> 0, fdcs |-> m_fdContexts, ep |-> epoll,
                      pending |-> m_pendingEventCount]
       IN /\ m_fdContexts' = r.fdcs /\ epoll' = r.ep /\ m_pendingEventCount' = r.pending
          /\ fdSize' = fdSize /\ fdLookup' = fdLookup
          /\ last' = [NoCall EXCEPT !.op = "cancelEvent", !.fd = fd, !.event = event,
                                    !.rv = r.rv,
                                    !.cb = getContext(m_fdContexts[fd], event).cb]
    /\ nops' = nops + 1
    /\ UNCHANGED <<schedVars, fiberVars, tickleFds, timerVars, cbBody, ran, halt>>

\* IOManager::cancelAll
UserCancelAll(fd) ==
    /\ UserReady
    /\ LET r == IF InVector(fdSize, fd)
                THEN cancelAll(m_fdContexts, epoll, m_pendingEventCount, fd)
                ELSE [rv |-> 0, fdcs |-> m_fdContexts, ep |-> epoll,
                      pending |-> m_pendingEventCount, assert |-> FALSE]
       IN /\ m_fdContexts' = r.fdcs /\ epoll' = r.ep /\ m_pendingEventCount' = r.pending
          /\ fdSize' = fdSize /\ fdLookup' = fdLookup
          /\ halt' = IF r.assert THEN "assert" ELSE halt
          /\ last' = [NoCall EXCEPT !.op = "cancelAll", !.fd = fd, !.rv = r.rv]
    /\ nops' = nops + 1
    /\ UNCHANGED <<schedVars, fiberVars, tickleFds, timerVars, cbBody, ran>>

\* --------------------------------------------------------- specifications
\* The steps of a thread inside Scheduler::run and the fibers it runs.
RunStep(t) ==
    \/ RunStart(t) \/ Select(t) \/ NullThreadFiber(t)
    \/ DispatchFiber(t) \/ DispatchCb(t) \/ DispatchIdle(t)
    \/ AfterFiber(t) \/ AfterCb(t) \/ AfterIdle(t)
    \/ CbStart(t) \/ CbResumed(t)

\* A Scheduler with use_caller either way, not yet started; callbacks
\* return at once or yield once.
SchedBodies == {Noop, NullFn, [NoBody EXCEPT !.kind = "yield"],
                [NoBody EXCEPT !.kind = "noop", !.raise = TRUE],
                [NoBody EXCEPT !.kind = "yield", !.raise = TRUE]}
Affinities == {-1}

InitSched ==
    /\ \E use_caller \in BOOLEAN :
          \E threads \in 1 .. (MaxWorkers + (IF use_caller THEN 1 ELSE 0)) :
              InitScheduler("Scheduler", threads, use_caller, FALSE)
    /\ InitIO /\ InitTimers /\ InitEnv

StopStep == StopBegin \/ StopCheck \/ StopCall \/ StopJoin

NextSched ==
    \/ \E t \in Tids : RunStep(t) \/ SchedulerIdle(t) \/ RunExit(t)
                       \/ StaleBackFault(t) \/ StaleBackLost(t)
    \/ \E b \in SchedBodies, a \in Affinities : UserSchedule(b, a)
    \/ \E p \in BatchPatterns : UserScheduleBatch(p)
    \/ UserStart
    \/ StopStep

SpecSched == InitSched /\ [][NextSched]_vars

\* Every thread that can take a step eventually takes one, and so does
\* stop().
FairSched ==
    /\ SpecSched
    /\ \A t \in Tids : WF_vars(RunStep(t) \/ SchedulerIdle(t) \/ RunExit(t)
                               \/ StaleBackFault(t) \/ StaleBackLost(t))
    /\ WF_vars(StopStep)

\* An IOManager with the caller thread bound to it (use_caller) and
\* MaxWorkers private workers; callbacks wait for an event of a descriptor.
WaitBodies == {[NoBody EXCEPT !.kind = "wait", !.fd = fd, !.event = e] : fd \in Fds, e \in Event}

InitIOManager ==
    /\ InitScheduler("IOManager", MaxWorkers + 1, TRUE, TRUE)
    /\ InitIO /\ InitTimers /\ InitEnv

NextIO ==
    \/ \E t \in Tids : RunStep(t) \/ CbYield(t) \/ CbSwapOut(t)
                       \/ IOIdleWait(t) \/ IOIdleEvent(t) \/ IOIdleSwapOut(t)
    \/ \E b \in WaitBodies : UserSchedule(b, -1)
    \/ \E fd \in Fds, e \in Event :
          UserAddEvent(fd, e) \/ UserDelEvent(fd, e) \/ UserCancelEvent(fd, e)
    \/ \E fd \in Fds : UserCancelAll(fd)

SpecIO == InitIOManager /\ [][NextIO]_vars

\* ------------------------------------------------------- the timer API
\* The values sylar::GetCurrentMS() takes: a few milliseconds at the bottom
\* of the range and a few more than an hour later.
ClockValues == (0 .. MaxTick) \cup {HourMs + MaxTick, HourMs + MaxTick + 1}

\* The clock is stepped, forward or backward.
ClockSet(v) ==
    /\ Running /\ v # now
    /\ now' = v
    /\ UNCHANGED <<schedVars, fiberVars, ioVars, timers, m_timers, m_tickled,
                   m_previouseTime, envVars>>

\* The clock moves forward.
ClockAdvance(v) == now < v /\ ClockSet(v)

\* The Timer objects made so far; the program keeps the Timer::ptr of each.
Created(t) == timers[t] # NoTimerObj

\* TimerManager::addTimer(ms, cb, recurring) (timer.cpp:136-142) with a new
\* callback, which is given the number of the timer;
\* IOManager::onTimerInsertedAtFront (iomanager.cpp:510-512) is tickle().
UserAddTimer(ms, recurring) ==
    /\ UserReady /\ \E t \in TimerIds : ~Created(t)
    /\ LET t == CHOOSE x \in TimerIds : ~Created(x) /\ \A y \in TimerIds : y < x => Created(y)
           tm == [timers EXCEPT ![t] = NewTimer(ms, t, recurring, now)]
           r == addTimer(tm, m_timers, m_tickled, t)
       IN /\ cbBody[t].kind = "none"
          /\ timers' = tm /\ m_timers' = r.set /\ m_tickled' = r.tickled
          /\ tickleFds' = IF r.at_front THEN tickle(kind, tickleFds, m_idleThreadCount)
                          ELSE tickleFds
          /\ cbBody' = [cbBody EXCEPT ![t] = Noop]
          /\ last' = [NoCall EXCEPT !.op = "addTimer", !.timer = t, !.cb = t,
                                    !.tickle = r.at_front]
    /\ nops' = nops + 1
    /\ UNCHANGED <<schedVars, fiberVars, m_fdContexts, fdSize, fdLookup, epoll, m_pendingEventCount,
                   m_previouseTime, now, ran, halt>>

\* Timer::cancel, Timer::refresh and Timer::reset on a timer of the program.
UserTimerCall(op, t, r) ==
    /\ UserReady /\ Created(t)
    /\ timers' = r.tm /\ m_timers' = r.set
    /\ last' = [NoCall EXCEPT !.op = op, !.timer = t, !.rv = r.rv, !.cb = timers[t].m_cb]
    /\ nops' = nops + 1
    /\ UNCHANGED <<schedVars, fiberVars, ioVars, m_tickled, m_previouseTime, now,
                   cbBody, ran, halt>>

UserTimerCancel(t) == UserTimerCall("cancel", t, Timer_cancel(timers, m_timers, t))
UserTimerRefresh(t) == UserTimerCall("refresh", t, Timer_refresh(timers, m_timers, t, now))
UserTimerReset(t, ms, from_now) ==
    UserTimerCall("reset", t, Timer_reset(timers, m_timers, t, ms, from_now, now))

\* TimerManager::listExpiredCb (timer.cpp:176-224) called by the program;
\* the callbacks it returns are dropped.
UserListExpired ==
    /\ UserReady
    /\ LET r == listExpiredCb(timers, m_timers, now, m_previouseTime)
       IN /\ timers' = r.tm /\ m_timers' = r.set /\ m_previouseTime' = r.prev
          /\ last' = [NoCall EXCEPT !.op = "listExpiredCb", !.cbs = r.cbs,
                                    !.now_ms = now, !.prev = m_previouseTime]
    /\ nops' = nops + 1
    /\ UNCHANGED <<schedVars, fiberVars, ioVars, m_tickled, now, cbBody, ran, halt>>

\* The TimerManager of an IOManager, used by the program alone: the
\* threads of the IOManager are left out.
NextTimerApi ==
    \/ \E v \in ClockValues : ClockSet(v)
    \/ \E ms \in Periods, recurring \in BOOLEAN : UserAddTimer(ms, recurring)
    \/ \E t \in TimerIds : UserTimerCancel(t) \/ UserTimerRefresh(t)
    \/ \E t \in TimerIds, ms \in Periods, from_now \in BOOLEAN : UserTimerReset(t, ms, from_now)
    \/ UserListExpired

SpecTimerApi == InitIOManager /\ [][NextTimerApi]_vars

\* An IOManager (use_caller, MaxWorkers private workers) whose only work is
\* timers: the program adds and cancels them, the workers deliver them.
NextTimer ==
    \/ \E t \in Tids : RunStart(t) \/ Select(t) \/ NullThreadFiber(t)
                       \/ DispatchCb(t) \/ DispatchIdle(t) \/ AfterCb(t) \/ AfterIdle(t)
                       \/ CbStart(t)
                       \/ IOIdleWait(t) \/ IOIdleEvent(t) \/ IOIdleSwapOut(t)
    \/ \E v \in ClockValues : ClockAdvance(v)
    \/ \E ms \in Periods, recurring \in BOOLEAN : UserAddTimer(ms, recurring)
    \/ \E t \in TimerIds : UserTimerCancel(t)

SpecTimer == InitIOManager /\ [][NextTimer]_vars

\* The same, with a program that also refreshes and resets its timers.
NextTimerReset ==
    \/ NextTimer
    \/ \E t \in TimerIds : UserTimerRefresh(t)
    \/ \E t \in TimerIds, ms \in Periods, from_now \in BOOLEAN : UserTimerReset(t, ms, from_now)

SpecTimerReset == InitIOManager /\ [][NextTimerReset]_vars

\* ------------------------------------------------------- the Fiber API
\* A thread that uses Fiber directly, on its native stack and outside any
\* scheduling loop: up to MaxFiberOps calls.
FiberReady == Running /\ th[0].pc = "user" /\ nops < MaxFiberOps

\* Fiber::ptr f(new Fiber(cb)) (fiber.cpp:81-110); the program keeps f.
FiberNew ==
    /\ FiberReady
    /\ LET f == FreshFiber(fib)
           made == [NewFiber(TaskCb(0), s_fiber_count, FALSE) EXCEPT !.user = TRUE]
       IN /\ fib' = [fib EXCEPT ![f] = made]
          /\ last' = [NoCall EXCEPT !.op = "newFiber", !.rv = made.m_id]
    /\ s_fiber_count' = s_fiber_count + 2
    /\ nops' = nops + 1
    /\ UNCHANGED <<schedVars, th, nullSlot, ioVars, timerVars, cbBody, ran, halt>>

\* The program gives up its handle to fiber f; the destructor of a main
\* fiber that is the current fiber clears t_fiber (fiber.cpp:123-126).
FiberDrop(f) ==
    /\ FiberReady /\ fib[f].alive /\ fib[f].user
    /\ LET fb2 == [fib EXCEPT ![f].user = FALSE]
           rel == Release(fb2, s_fiber_count, f,
                          Owned(f, fb2, m_fibers, th, m_fdContexts, m_rootFiber))
       IN /\ fib' = rel.fib
          /\ s_fiber_count' = rel.count
          /\ halt' = IF rel.assert THEN "assert" ELSE halt
          /\ th' = IF ~rel.fib[f].alive /\ ~fib[f].m_stack /\ th[0].t_fiber = f
                   THEN [th EXCEPT ![0].t_fiber = 0] ELSE th
    /\ last' = [NoCall EXCEPT !.op = "dropFiber", !.rv = f]
    /\ nops' = nops + 1
    /\ UNCHANGED <<schedVars, nullSlot, ioVars, timerVars, cbBody, ran>>

\* Fiber::GetThis() (fiber.cpp:190-202) with the result kept in a variable
\* of the program (keep) or discarded.  With no current fiber the main fiber
\* is constructed; the only handles to it are the local main_fiber and the
\* one returned, t_threadFiber not being assigned (fiber.cpp:200), so a
\* discarded result destroys it at once.
FiberGetThis(keep) ==
    /\ FiberReady
    /\ LET cur == th[0].t_fiber
           f == IF cur # 0 THEN cur ELSE FreshFiber(fib)
           made == IF cur # 0 THEN fib ELSE [fib EXCEPT ![f] = MainFiber]
           count == IF cur # 0 THEN s_fiber_count ELSE s_fiber_count + 1
           fb2 == [made EXCEPT ![f].user = @ \/ keep]
           rel == Release(fb2, count, f,
                          Owned(f, fb2, m_fibers, th, m_fdContexts, m_rootFiber))
       IN /\ fib' = rel.fib
          /\ s_fiber_count' = rel.count
          /\ halt' = IF rel.assert THEN "assert" ELSE halt
          /\ th' = [th EXCEPT ![0].t_fiber = IF rel.fib[f].alive THEN f ELSE 0,
                              ![0].mains = IF cur # 0 THEN @ ELSE @ + 1]
          /\ last' = [NoCall EXCEPT !.op = "GetThis", !.rv = f]
    /\ nops' = nops + 1
    /\ UNCHANGED <<schedVars, nullSlot, ioVars, timerVars, cbBody, ran>>

\* A program with a Scheduler it never starts (no use_caller), calling the
\* Fiber API from its main thread.
InitFiber ==
    /\ InitScheduler("Scheduler", 1, FALSE, FALSE)
    /\ InitIO /\ InitTimers /\ InitEnv

NextFiber ==
    \/ FiberNew
    \/ \E f \in FiberIds : FiberDrop(f)
    \/ \E keep \in BOOLEAN : FiberGetThis(keep)

SpecFiber == InitFiber /\ [][NextFiber]_vars

\* ------------------------------------------------------------ switchTo
\* A Scheduler with the caller thread and one private worker.  Its
\* callbacks call switchTo, to any thread (-1) or to one of the threads, and
\* the program also schedules fibers it keeps a handle to.
SwitchBodies == {[NoBody EXCEPT !.kind = "switch", !.thread = a] : a \in {-1} \cup Tids}

InitSwitch ==
    /\ InitScheduler("Scheduler", MaxWorkers + 1, TRUE, FALSE)
    /\ InitIO /\ InitTimers /\ InitEnv

NextSwitch ==
    \/ \E t \in Tids : RunStep(t) \/ CbYield(t) \/ CbSwapOut(t) \/ SchedulerIdle(t)
                       \/ RunExit(t) \/ StaleBackFault(t) \/ StaleBackLost(t)
    \/ SharedStackFault
    \/ \E b \in SwitchBodies : UserSchedule(b, -1)
    \/ \E f \in {0} \cup FiberIds : UserScheduleFiber(f)
    \/ UserStart
    \/ StopStep

SpecSwitch == InitSwitch /\ [][NextSwitch]_vars

\* ----------------------------------------------------- pinned entries
\* An IOManager with the caller thread and one private worker, whose
\* callbacks are scheduled for any thread or pinned to one of the two, and
\* which the program stops while an event is still registered.
PinnedBodies == {Noop, [NoBody EXCEPT !.kind = "yield"]}

NextPinned ==
    \/ \E t \in Tids : RunStep(t) \/ IOIdleWait(t) \/ IOIdleEvent(t) \/ IOIdleSwapOut(t)
    \/ \E b \in PinnedBodies, a \in {-1} \cup Tids : UserSchedule(b, a)
    \/ \E fd \in Fds, e \in Event : UserAddEvent(fd, e)
    \/ StopBegin \/ StopCheck \/ StopCall

SpecPinned == InitIOManager /\ [][NextPinned]_vars

\* A started IOManager whose program schedules callbacks for any thread
\* and registers events.  Every worker that can take a step eventually
\* takes one; a step of idle that finds no report is the return of
\* epoll_wait at its timeout.
NextQueue ==
    \/ \E t \in Tids : RunStep(t) \/ IOIdleWait(t) \/ IOIdleEvent(t) \/ IOIdleSwapOut(t)
    \/ \E b \in PinnedBodies : UserSchedule(b, -1)
    \/ \E fd \in Fds, e \in Event : UserAddEvent(fd, e)

FairQueue ==
    /\ InitIOManager /\ [][NextQueue]_vars
    /\ \A t \in Tids : WF_vars(RunStep(t) \/ IOIdleWait(t) \/ IOIdleEvent(t)
                               \/ IOIdleSwapOut(t))

\* ------------------------------------------------ the fd-context vector
\* Descriptors at and past the length the constructor gives the vector.
GrowFds == InitialContexts .. (InitialContexts + MaxGrow)

\* An IOManager whose program registers and removes events of descriptors
\* below and past the end of the vector.  m_fdContexts[fd] of a descriptor
\* past the end stands for the FdContext contextResize will make.
InitResize ==
    /\ InitScheduler("IOManager", MaxWorkers + 1, TRUE, TRUE)
    /\ m_fdContexts = [fd \in Fds \cup GrowFds |-> NewFdContext]
    /\ fdSize = InitialContexts
    /\ fdLookup = NoLookups
    /\ epoll = [fd \in Fds \cup GrowFds |-> NoInterest]
    /\ m_pendingEventCount = 0
    /\ tickleFds = 0
    /\ InitTimers /\ InitEnv

NextResize ==
    \E fd \in Fds \cup GrowFds, e \in Event : UserAddEvent(fd, e) \/ UserDelEvent(fd, e)

SpecResize == InitResize /\ [][NextResize]_vars

\* ------------------------------------------- concurrent addEvent calls
\* addEvent up to the release of the read lock (iomanager.cpp:160-166):
\* thread t compares the length with fd and, when fd is inside, takes
\* m_fdContexts[fd].
AddEventLookup(t, fd, event) ==
    /\ Running /\ nops < MaxOps /\ FreeCbs # {}
    /\ fdLookup.at[t].pc = "none"
    /\ fdLookup' = [fdLookup EXCEPT !.at[t] =
                       IF InVector(fdSize, fd)
                       THEN [pc |-> "found", fd |-> fd, event |-> event, ctx |-> fdLookup.gen[fd]]
                       ELSE [pc |-> "resize", fd |-> fd, event |-> event, ctx |-> 0]]
    /\ nops' = nops + 1
    /\ UNCHANGED <<schedVars, fiberVars, m_fdContexts, fdSize, epoll, m_pendingEventCount,
                   tickleFds, timerVars, cbBody, ran, last, halt>>

\* The else branch (iomanager.cpp:167-171) under the write lock:
\* contextResize(fd * 1.5), whatever the length is by now, then
\* fd_ctx = m_fdContexts[fd].  vector::resize to a smaller length drops the
\* entries past it; a later resize makes new objects there.
AddEventResize(t) ==
    /\ Running /\ fdLookup.at[t].pc = "resize"
    /\ LET fd == fdLookup.at[t].fd
           size == contextResize((3 * fd) \div 2)
           dropped == {x \in DOMAIN m_fdContexts : size <= x /\ x < fdSize}
           gen == [x \in DOMAIN fdLookup.gen |->
                     IF x \in dropped THEN fdLookup.gen[x] + 1 ELSE fdLookup.gen[x]]
       IN /\ fdSize' = size
          /\ m_fdContexts' = [x \in DOMAIN m_fdContexts |->
                                 IF x \in dropped THEN NewFdContext ELSE m_fdContexts[x]]
          /\ fdLookup' = [gen |-> gen,
                          old |-> [x \in DOMAIN fdLookup.old |->
                                     IF x \in dropped THEN m_fdContexts[x] ELSE fdLookup.old[x]],
                          at |-> [fdLookup.at EXCEPT ![t].pc = "found", ![t].ctx = gen[fd]]]
    /\ UNCHANGED <<schedVars, fiberVars, epoll, m_pendingEventCount, tickleFds, timerVars,
                   envVars>>

\* The rest of addEvent (iomanager.cpp:173-221) on the FdContext the thread
\* holds: the vector's entry, or an object the vector no longer holds.
AddEventFound(t) ==
    /\ Running /\ fdLookup.at[t].pc = "found"
    /\ LET a == fdLookup.at[t]
           current == a.ctx = fdLookup.gen[a.fd]
           cb == FreshCb
           r == addEvent(IF current THEN m_fdContexts ELSE fdLookup.old, epoll,
                         m_pendingEventCount, a.fd, a.event, cb, th[t].t_scheduler, 0, EXEC)
       IN /\ m_fdContexts' = IF current THEN r.fdcs ELSE m_fdContexts
          /\ fdLookup' = [fdLookup EXCEPT !.old = IF current THEN @ ELSE r.fdcs,
                                          !.at[t] = NoLookup]
          /\ epoll' = r.ep /\ m_pendingEventCount' = r.pending
          /\ halt' = IF r.assert THEN "assert" ELSE halt
          /\ cbBody' = [cbBody EXCEPT ![cb] = Noop]
          /\ last' = [NoCall EXCEPT !.op = "addEvent", !.fd = a.fd, !.event = a.event,
                                    !.rv = r.rv, !.cb = cb, !.thread = t]
    /\ UNCHANGED <<schedVars, fiberVars, fdSize, tickleFds, timerVars, ran, nops>>

\* An IOManager on which two threads of the program call addEvent for
\* descriptors at and past the end of the vector.
InitGrow ==
    /\ InitScheduler("IOManager", MaxWorkers + 1, TRUE, TRUE)
    /\ m_fdContexts = [fd \in Fds \cup ShrinkFds |-> NewFdContext]
    /\ fdSize = InitialContexts
    /\ fdLookup = NoLookups
    /\ epoll = [fd \in Fds \cup ShrinkFds |-> NoInterest]
    /\ m_pendingEventCount = 0
    /\ tickleFds = 0
    /\ InitTimers /\ InitEnv

NextGrow ==
    \E t \in Tids :
       \/ \E fd \in ShrinkFds, e \in Event : AddEventLookup(t, fd, e)
       \/ AddEventResize(t)
       \/ AddEventFound(t)

SpecGrow == InitGrow /\ [][NextGrow]_vars

\* ------------------------------------------------------------- properties
\* The step is the API call op of the caller thread.
ApiStep(op) == nops' = nops + 1 /\ last'.op = op

\* The run-queue entry triggerEvent makes of an event context.
WaiterOf(ctx) == FiberAndThread(IF ctx.cb # 0 THEN 0 ELSE ctx.fiber, ctx.cb, -1)

Occurrences(q, x) == Cardinality({i \in DOMAIN q : q[i] = x})

\* The step triggers (fd, e): the bit leaves the mask and the queue grows.
Triggered(fd, e) ==
    /\ e \in m_fdContexts[fd].events
    /\ ~(e \in m_fdContexts'[fd].events)
    /\ Len(m_fibers') > Len(m_fibers)

\* C1: whenever the idle loop enqueues the waiter of a registered (fd, E),
\* the waiter is on the run queue once, a callback waiter has not run
\* before, and the (fd, E) event context then holds no scheduler, no fiber
\* and no callback.
C1_TriggerOnceAndCleared ==
    [][\A fd \in Fds, e \in Event :
          Triggered(fd, e) =>
              LET w == WaiterOf(getContext(m_fdContexts[fd], e))
              IN /\ Occurrences(m_fibers', w) = 1
                 /\ (w.cb # 0 => ran[w.cb] = 0)
                 /\ getContext(m_fdContexts'[fd], e) = EmptyContext]_vars

\* C2: cancel_event(fd, E) on a registered (fd, E) returns true, removes E
\* from the mask, decrements the pending count by one and puts the bound
\* waiter on the run queue.
C2_CancelTriggers ==
    [][(ApiStep("cancelEvent") /\ last'.event \in m_fdContexts[last'.fd].events) =>
          LET fd == last'.fd
              e == last'.event
          IN /\ last'.rv = 1
             /\ ~(e \in m_fdContexts'[fd].events)
             /\ m_pendingEventCount' = m_pendingEventCount - 1
             /\ m_fibers' = Append(m_fibers, WaiterOf(getContext(m_fdContexts[fd], e)))]_vars

\* C3: cancel_all(fd) on an fd with a registered event removes the fd from
\* epoll, schedules every registered waiter once, decrements the pending
\* count once per registered event, leaves the mask NONE and returns true
\* without an assertion failure.
C3_CancelAllTriggers ==
    [][(ApiStep("cancelAll") /\ m_fdContexts[last'.fd].events # NONE) =>
          LET fd == last'.fd
              fd_ctx == m_fdContexts[fd]
              ws == (IF READ \in fd_ctx.events THEN <<WaiterOf(fd_ctx.read)>> ELSE <<>>)
                    \o (IF WRITE \in fd_ctx.events THEN <<WaiterOf(fd_ctx.write)>> ELSE <<>>)
          IN /\ halt' = "no"
             /\ last'.rv = 1
             /\ ~epoll'[fd].reg
             /\ m_fibers' = m_fibers \o ws
             /\ m_pendingEventCount' = m_pendingEventCount - Len(ws)
             /\ m_fdContexts'[fd].events = NONE]_vars

\* The waiters add_event can bind: a callback, or the calling fiber.
Waiters == {[cb |-> 1, fiber |-> 0], [cb |-> 0, fiber |-> 1]}

AddDelRoundTrip ==
    \A fd \in Fds, e \in Event, w \in Waiters :
        LET a == addEvent(m_fdContexts, epoll, m_pendingEventCount, fd, e, w.cb, TRUE,
                          w.fiber, EXEC)
            d == delEvent(a.fdcs, a.ep, a.pending, fd, e)
            a2 == addEvent(d.fdcs, d.ep, d.pending, fd, e, w.cb, TRUE, w.fiber, EXEC)
        IN (a.rv = 0 /\ ~a.assert) =>
              /\ d.rv = 1
              /\ d.fdcs[fd].events = m_fdContexts[fd].events
              /\ getContext(d.fdcs[fd], e) = EmptyContext
              /\ getContext(m_fdContexts[fd], e) = EmptyContext
              /\ d.fdcs = m_fdContexts
              /\ d.pending = m_pendingEventCount
              /\ a2.rv = 0 /\ ~a2.assert

\* C4: in every state, add_event(fd, E, w) that returns 0 followed by
\* del_event(fd, E) restores the mask, the (fd, E) context (all empty) and
\* the pending count, and add_event(fd, E, ...) then returns 0 without an
\* assertion failure; a del_event step never changes the run queue or runs
\* a callback.
C4_AddDelRestores ==
    /\ []AddDelRoundTrip
    /\ [][ApiStep("delEvent") => (m_fibers' = m_fibers /\ ran' = ran /\ halt' = halt)]_vars

\* A callback was registered and then deleted by del_event: it never ran,
\* is not queued, and its context is empty.
C4_Witness ==
    /\ last.op = "delEvent" /\ last.rv = 1 /\ last.cb # 0
    /\ ran[last.cb] = 0
    /\ \A i \in DOMAIN m_fibers : m_fibers[i].cb # last.cb
    /\ getContext(m_fdContexts[last.fd], last.event) = EmptyContext

\* C5: for every fd and E, in every state, a cancel_event (del_event) that
\* returned true is followed by one that returns false and changes neither
\* the masks, the contexts nor the pending count.
C5_Idempotent ==
    \A fd \in Fds, e \in Event :
        LET c1 == cancelEvent(m_fdContexts, epoll, m_pendingEventCount, fd, e)
            c2 == cancelEvent(c1.fdcs, c1.ep, c1.pending, fd, e)
            d1 == delEvent(m_fdContexts, epoll, m_pendingEventCount, fd, e)
            d2 == delEvent(d1.fdcs, d1.ep, d1.pending, fd, e)
        IN /\ c1.rv = 1 => (c2.rv = 0 /\ c2.fdcs = c1.fdcs /\ c2.pending = c1.pending)
           /\ d1.rv = 1 => (d2.rv = 0 /\ d2.fdcs = d1.fdcs /\ d2.pending = d1.pending)

\* C6: in every IOManager state stopping(next_timer_out) returns, and
\* returns true exactly when the base condition holds, the pending count is
\* 0 and the timer set is empty.
C6_StoppingIff ==
    kind = "IOManager" =>
        LET res == IOManager_stopping_timeout(StackFrames, getNextTimer(timers, m_timers, now),
                                              m_pendingEventCount)
            base == Scheduler_stopping(m_autoStop, m_stopping, m_fibers, m_activeThreadCount)
        IN /\ res # "overflow"
           /\ (res = "true") <=> (base /\ SizeIsZero(m_pendingEventCount) /\ m_timers = {})

\* Every callback handed to schedule() has been entered exactly once.
AllRanOnce == \A c \in Cbs : cbBody[c].kind # "none" => ran[c] = 1

\* Every private worker has left run() and has been joined.
WorkersJoined == m_threads = {} /\ \A w \in Tids \ {0} : th[w].pc \in {"none", "exited"}

\* C7: with use_caller, a stop() called from the caller thread eventually
\* returns, and then every scheduled callback has run exactly once, every
\* private worker has left its loop and been joined, and the caller thread
\* is back in stop()'s caller.
C7_StopReturns ==
    (last.op = "stop" /\ m_rootFiber # 0)
        ~> (/\ last.op = "stop" /\ last.rv = 1
            /\ th[0].pc = "user"
            /\ AllRanOnce /\ WorkersJoined)

\* The object's stopping() in the current state.
StoppingNow ==
    stopping(kind, m_autoStop, m_stopping, m_fibers, m_activeThreadCount,
             getNextTimer(timers, m_timers, now), m_pendingEventCount)

\* The threads that run Scheduler::run: the private workers and, with
\* use_caller, the caller thread.
LoopThreads == m_threadCount + (IF m_rootFiber # 0 THEN 1 ELSE 0)

\* C8 as stated: whenever stopping() is true, active == 0, idle ==
\* thread_count, the pending count is 0, the queue and the timer set are
\* empty.
C8_QuiescentCounters ==
    StoppingNow = "true" =>
        /\ m_activeThreadCount = 0
        /\ m_idleThreadCount = m_threadCount
        /\ m_pendingEventCount = 0
        /\ m_fibers = <<>>
        /\ m_timers = {}

\* C8, amended: whenever stopping() is true, active == 0, the pending count
\* is 0, the queue and the timer set are empty, and idle lies between 0 and
\* the number of threads that run the scheduling loop.
C8_Quiescent ==
    StoppingNow = "true" =>
        /\ m_activeThreadCount = 0
        /\ m_idleThreadCount >= 0 /\ m_idleThreadCount <= LoopThreads
        /\ m_pendingEventCount = 0
        /\ m_fibers = <<>>
        /\ m_timers = {}

\* stopping() is true while a worker is counted idle, after a callback ran.
C8_Witness ==
    /\ StoppingNow = "true"
    /\ m_idleThreadCount = 1
    /\ \E c \in Cbs : ran[c] = 1

AnyAffinity(q) == \A i \in DOMAIN q : q[i].thread = -1
NoneExec(q) == \A i \in DOMAIN q : q[i].fiber # 0 => fib[q[i].fiber].m_state # EXEC

\* C9: while every queued entry has any-thread affinity (and none is a
\* fiber still executing), a step leaves the queue alone, inserts behind
\* everything queued, or removes the oldest entry, which is the one the
\* dequeuing worker dispatches next.
C9_Fifo ==
    [][(AnyAffinity(m_fibers) /\ NoneExec(m_fibers)) =>
          \/ m_fibers' = m_fibers
          \/ /\ Len(m_fibers') > Len(m_fibers)
             /\ SubSeq(m_fibers', 1, Len(m_fibers)) = m_fibers
          \/ /\ m_fibers # <<>>
             /\ m_fibers' = Tail(m_fibers)
             /\ \E t \in Tids : /\ th[t].pc = "select" /\ th'[t].pc = "dispatch"
                                /\ th'[t].ft = Head(m_fibers)]_vars

\* The single worker dispatches the second callback of a batch after the
\* first one has run.
C9_Witness ==
    /\ LoopThreads = 1
    /\ \E t \in Tids : th[t].pc = "dispatch" /\ th[t].ft.cb = 2
    /\ ran[1] = 1 /\ ran[2] = 0

\* The entries schedule() makes of the callbacks of a batch.
RECURSIVE AllEntries(_)
AllEntries(cbs) ==
    IF cbs = <<>> THEN <<>> ELSE <<FiberAndThread(0, Head(cbs), -1)>> \o AllEntries(Tail(cbs))
RECURSIVE NonEmptyEntries(_)
NonEmptyEntries(cbs) ==
    IF cbs = <<>> THEN <<>>
    ELSE (IF Head(cbs) # 0 THEN <<FiberAndThread(0, Head(cbs), -1)>> ELSE <<>>)
         \o NonEmptyEntries(Tail(cbs))

\* C10 as stated: every schedule() appends exactly one entry at the tail
\* (the batch variant one per element) and calls tickle() exactly when the
\* queue was empty before the (first) insertion.
C10_AlwaysAccepted ==
    [][/\ ApiStep("schedule") =>
             /\ m_fibers' = Append(m_fibers, FiberAndThread(0, last'.cb, last'.thread))
             /\ last'.tickle = (m_fibers = <<>>)
       /\ ApiStep("scheduleBatch") =>
             /\ m_fibers' = m_fibers \o AllEntries(last'.cbs)
             /\ last'.tickle = (m_fibers = <<>> /\ last'.cbs # <<>>)]_vars

\* C10, amended: schedule() appends the entry at the tail unless it is
\* empty (no fiber, no callback), in which case nothing is appended; the
\* batch variant appends its non-empty elements in order; tickle() is
\* called exactly when the queue was empty before the call (for a batch:
\* and the batch has an element), whether or not anything was appended.
C10_NonEmptyAccepted ==
    [][/\ ApiStep("schedule") =>
             /\ m_fibers' = IF last'.cb # 0
                            THEN Append(m_fibers, FiberAndThread(0, last'.cb, last'.thread))
                            ELSE m_fibers
             /\ last'.tickle = (m_fibers = <<>>)
       /\ ApiStep("scheduleBatch") =>
             /\ m_fibers' = m_fibers \o NonEmptyEntries(last'.cbs)
             /\ last'.tickle = (m_fibers = <<>> /\ last'.cbs # <<>>)]_vars

\* An empty function was scheduled into an empty queue: tickle() was called
\* and the queue is still empty.
C10_Witness ==
    /\ last.op = "schedule" /\ last.cb = 0 /\ last.tickle
    /\ m_fibers = <<>>

\* The fiber a worker has just run: ft.fiber after case 1, cb_fiber after
\* case 2 of Scheduler::run.
JustRan(t) == IF th[t].pc = "after_fiber" THEN th[t].ft.fiber ELSE th[t].cb_fiber

Queued(q, f) == \E i \in DOMAIN q : q[i].fiber = f

\* C11: when the body of a callback or of a fiber throws, the thread is
\* switched back to the scheduling loop with the fiber in state EXCEPT, and
\* the loop's handling of that fiber fails no assertion (also when it gives
\* up the last handle to the fiber), does not put the fiber back on the
\* run queue, and goes on to select the next entry.
C11_CallbackIsolation ==
    [][\A t \in Tids :
          /\ (th[t].pc \in {"cb_start", "cb_resumed"} /\ th'[t] # th[t]
                  /\ fib'[th[t].t_fiber].m_state = EXCEPT_)
                => (th'[t].pc \in {"after_fiber", "after_cb"} /\ halt' = "no")
          /\ (th[t].pc \in {"after_fiber", "after_cb"} /\ th'[t] # th[t]
                  /\ fib[JustRan(t)].m_state = EXCEPT_)
                => (/\ halt' = "no"
                    /\ th'[t].pc = "select"
                    /\ ~Queued(m_fibers', JustRan(t)))]_vars

\* C12: whenever a fiber is destroyed, a fiber with a stack of its own is
\* in state TERM or INIT and a main fiber is in state EXEC.
C12_DestroyedInFinalState ==
    [][\A f \in FiberIds :
          (fib[f].alive /\ ~fib'[f].alive) =>
              IF fib'[f].m_stack THEN fib'[f].m_state \in {TERM, INIT}
              ELSE fib'[f].m_state = EXEC]_vars

\* C13: the construction of a task fiber raises total_fibers() by one, the
\* destruction of a fiber lowers it by one, and whenever every constructed
\* task fiber has been destroyed (and no main fiber is alive)
\* total_fibers() is at its initial value 0.
C13_TotalFibersBalanced ==
    /\ [][/\ ApiStep("newFiber") => s_fiber_count' = s_fiber_count + 1
          /\ \A f \in FiberIds : (fib[f].alive /\ ~fib'[f].alive)
                                      => s_fiber_count' = s_fiber_count - 1]_vars
    /\ []((\A f \in FiberIds : ~fib[f].alive) => s_fiber_count = 0)

\* C14: the id of a newly constructed task fiber is greater than the id of
\* every task fiber constructed before it, alive or destroyed.
C14_IdsIncrease ==
    [][ApiStep("newFiber") =>
          \A g \in FiberIds : fib[g].m_stack => last'.rv > fib[g].m_id]_vars

\* C15: a thread constructs at most one main fiber, and once it has, that
\* fiber is alive and is the thread's current fiber whenever the thread is
\* on its native stack.
C15_OneMainFiber ==
    /\ th[0].mains <= 1
    /\ th[0].mains = 1 =>
          /\ th[0].t_fiber \in FiberIds
          /\ fib[th[0].t_fiber].alive /\ ~fib[th[0].t_fiber].m_stack

\* C16: after Timer::cancel() has returned true for a timer, no step runs
\* that timer's callback.
C16_CancelledNeverFires ==
    [][(last.op = "cancel" /\ last.rv = 1) => ran'[last.timer] = ran[last.timer]]_vars

\* What a call of listExpiredCb would do in the current state.
ListNow == listExpiredCb(timers, m_timers, now, m_previouseTime)

\* The clock value now_ms is more than an hour below the value prev.
HourBack(now_ms, prev) == now_ms + HourMs < prev

\* C17: unless the clock is more than an hour below the last value seen,
\* list_expired_cb returns the callbacks of exactly the timers of the set
\* with expiry <= now, each once; a collected one-shot timer leaves the set
\* with its callback cleared, a collected recurring timer stays with expiry
\* now + period, and every other timer and its membership are unchanged.
C17_ExpiredExactly ==
    LET r == ListNow
        due == {t \in m_timers : timers[t].m_next <= now}
    IN ~HourBack(now, m_previouseTime) =>
          /\ Len(r.cbs) = Cardinality(due)
          /\ \A t \in due : \E i \in DOMAIN r.cbs : r.cbs[i] = timers[t].m_cb
          /\ \A t \in due :
                IF timers[t].m_recurring
                THEN /\ t \in r.set
                     /\ r.tm[t] = [timers[t] EXCEPT !.m_next = now + timers[t].m_ms]
                ELSE /\ ~(t \in r.set)
                     /\ r.tm[t] = [timers[t] EXCEPT !.m_cb = 0]
          /\ \A t \in TimerIds \ due :
                r.tm[t] = timers[t] /\ ((t \in r.set) <=> (t \in m_timers))

\* The callbacks cbs (each numbered as its timer) are in non-decreasing
\* order of the expiry the timers have in tm.
ExpiryOrdered(cbs, tm) ==
    \A i, j \in DOMAIN cbs : i < j => tm[cbs[i]].m_next <= tm[cbs[j]].m_next

\* C18: at any clock value, the callbacks one list_expired_cb call returns
\* are in non-decreasing order of the timers' expiry, and the idle loop
\* appends them to the run queue in that order.
C18_DeliveryOrder ==
    /\ [](\A v \in ClockValues :
             ExpiryOrdered(listExpiredCb(timers, m_timers, v, m_previouseTime).cbs, timers))
    /\ [][\A t \in Tids :
             (th[t].pc = "idle" /\ th'[t].pc = "idle_events")
                => m_fibers' = m_fibers \o AllEntries(ListNow.cbs)]_vars

\* Two one-shot timers were delivered in one batch, the one made second
\* first because it expires first.
C18_Witness ==
    /\ m_fibers = <<FiberAndThread(0, 2, -1), FiberAndThread(0, 1, -1)>>
    /\ timers[2].m_next < timers[1].m_next
    /\ timers[1].m_cb = 0 /\ timers[2].m_cb = 0

\* C19: when the clock is more than 3600000 ms below the last value seen
\* and the timer set is not empty, list_expired_cb returns the callback of
\* every timer of the set, whatever its expiry; and a call made by the
\* program returns what is stated here.
C19_RolloverExpiresAll ==
    /\ []((HourBack(now, m_previouseTime) /\ m_timers # {}) =>
             /\ Len(ListNow.cbs) = Cardinality(m_timers)
             /\ \A t \in m_timers : \E i \in DOMAIN ListNow.cbs : ListNow.cbs[i] = timers[t].m_cb)
    /\ [][ApiStep("listExpiredCb") => last'.cbs = ListNow.cbs]_vars

\* A call that saw the clock more than an hour back returned the callback
\* of a one-shot timer whose expiry is later than the clock value read.
C19_Witness ==
    /\ last.op = "listExpiredCb" /\ HourBack(last.now_ms, last.prev)
    /\ \E t \in TimerIds :
          /\ Created(t) /\ ~timers[t].m_recurring /\ timers[t].m_cb = 0
          /\ timers[t].m_next > last.now_ms
          /\ \E i \in DOMAIN last.cbs : last.cbs[i] = t

\* C20: on a one-shot timer whose callback has been cleared, cancel(),
\* refresh() and reset(ms, from_now) return false and change neither the
\* timer set nor any timer; and the calls the program makes behave so.
C20_FiredTimerInert ==
    /\ [](\A t \in TimerIds :
             (Created(t) /\ ~timers[t].m_recurring /\ timers[t].m_cb = 0) =>
                 LET same(r) == r.rv = 0 /\ r.tm = timers /\ r.set = m_timers
                 IN /\ same(Timer_cancel(timers, m_timers, t))
                    /\ same(Timer_refresh(timers, m_timers, t, now))
                    /\ \A ms \in Periods, from_now \in BOOLEAN :
                          same(Timer_reset(timers, m_timers, t, ms, from_now, now)))
    /\ [][\A op \in {"cancel", "refresh", "reset"} :
             (ApiStep(op) /\ timers[last'.timer].m_cb = 0)
                => (last'.rv = 0 /\ timers' = timers /\ m_timers' = m_timers)]_vars

\* reset() was called on a one-shot timer that list_expired_cb had
\* collected, and returned false.
C20_Witness ==
    /\ last.op = "reset" /\ last.rv = 0
    /\ ~timers[last.timer].m_recurring /\ timers[last.timer].m_cb = 0
    /\ ~(last.timer \in m_timers)
    /\ m_previouseTime >= timers[last.timer].m_next

\* C21: add_timer(ms, cb, recurring) puts the new timer into the set with
\* expiry now + ms.  The hook is called only if the tickled flag was false
\* and no timer of the set expires before the new one, and it is called if
\* the flag was false and the new timer expires before every other; the
\* flag is set exactly when the hook is called, and the hook is tickle().
C21_AddTimerHook ==
    [][ApiStep("addTimer") =>
          LET t == last'.timer
              called == last'.tickle
          IN /\ timers'[t].m_next = now + timers'[t].m_ms
             /\ m_timers' = m_timers \cup {t}
             /\ called => (~m_tickled /\ \A o \in m_timers : timers'[t].m_next <= timers[o].m_next)
             /\ (~m_tickled /\ \A o \in m_timers : timers'[t].m_next < timers[o].m_next) => called
             /\ m_tickled' = (m_tickled \/ called)
             /\ tickleFds' = IF called THEN tickle(kind, tickleFds, m_idleThreadCount)
                             ELSE tickleFds]_vars

\* A second timer was added that expires before the first, with the flag
\* cleared by the idle loop in between: the hook was called and wrote the
\* wake byte for the idle worker.
C21_Witness ==
    /\ last.op = "addTimer" /\ last.tickle /\ last.timer = 2
    /\ m_timers = {1, 2} /\ timers[2].m_next < timers[1].m_next
    /\ m_tickled /\ tickleFds = 1

\* The epoll_ctl call with these arguments fails in the current state.
CtlFails(op, fd, events) == epoll_ctl(epoll, op, fd, events, fd).rt # 0

\* The result r of an operation leaves the fd contexts, the epoll interest
\* and the pending count as they are.
NoChange(r) == r.fdcs = m_fdContexts /\ r.ep = epoll /\ r.pending = m_pendingEventCount

\* The reports the idle loop may be handling: what epoll_wait can return
\* now, and what a worker holds from an earlier epoll_wait.
ReportsInHand ==
    UNION {SeqRange(b) : b \in Batches(epoll, tickleFds)} \cup
    UNION {SeqRange(th[t].events) : t \in Tids}

\* C22: when the epoll_ctl call of add_event, del_event, cancel_event,
\* cancel_all or of the idle loop's re-arm fails, the operation returns -1
\* (add_event) or false, the idle loop skips the report, and the fd
\* contexts (masks and event contexts), the pending count, the epoll
\* interest and the run queue are as before; the calls the program makes
\* that report failure change none of them.
C22_FailedCtlNoChange ==
    /\ [](\A fd \in Fds, e \in Event :
            LET events == m_fdContexts[fd].events
                left == events \ {e}
                rm == IF left # NONE THEN EPOLL_CTL_MOD ELSE EPOLL_CTL_DEL
                add == IF events # NONE THEN EPOLL_CTL_MOD ELSE EPOLL_CTL_ADD
                a == addEvent(m_fdContexts, epoll, m_pendingEventCount, fd, e, 1, TRUE, 0, EXEC)
                d == delEvent(m_fdContexts, epoll, m_pendingEventCount, fd, e)
                c == cancelEvent(m_fdContexts, epoll, m_pendingEventCount, fd, e)
                all == cancelAll(m_fdContexts, epoll, m_pendingEventCount, fd)
            IN /\ (~(e \in events) /\ CtlFails(add, fd, events \cup {e}))
                     => (a.rv = -1 /\ ~a.assert /\ NoChange(a))
               /\ (e \in events /\ CtlFails(rm, fd, left))
                     => (d.rv = 0 /\ NoChange(d) /\ c.rv = 0 /\ NoChange(c))
               /\ (events # NONE /\ CtlFails(EPOLL_CTL_DEL, fd, {}))
                     => (all.rv = 0 /\ ~all.assert /\ NoChange(all)))
    /\ [](\A ev \in ReportsInHand :
            LET fd_ctx == m_fdContexts[ev.ptr]
                bits == IF ev.bits \cap {EPOLLERR, EPOLLHUP} # {}
                        THEN ev.bits \cup fd_ctx.events ELSE ev.bits
                real_events == bits \cap Event
                left == fd_ctx.events \ real_events
                op == IF left # NONE THEN EPOLL_CTL_MOD ELSE EPOLL_CTL_DEL
                r == handleEvent(m_fdContexts, epoll, m_pendingEventCount, m_fibers, ev)
            IN (~ev.tickle /\ fd_ctx.events \cap real_events # NONE
                  /\ CtlFails(op, fd_ctx.fd, left))
                  => (NoChange(r) /\ r.q = m_fibers /\ r.fault = "no" /\ r.tickles = 0))
    /\ [][((ApiStep("addEvent") /\ last'.rv = -1 /\ halt' = "no")
           \/ (\E op \in {"delEvent", "cancelEvent", "cancelAll"} : ApiStep(op) /\ last'.rv = 0))
             => UNCHANGED <<m_fdContexts, epoll, m_pendingEventCount, m_fibers>>]_vars

\* add_event returned -1 for an event that was not registered, because the
\* descriptor whose mask is not empty is no longer in the epoll instance.
C22_Witness ==
    /\ last.op = "addEvent" /\ last.rv = -1 /\ halt = "no"
    /\ ~(last.event \in m_fdContexts[last.fd].events)
    /\ m_fdContexts[last.fd].events # NONE /\ ~epoll[last.fd].reg

\* C23: an add_event on an fd at or past the length of the fd-context
\* vector leaves the vector with a length of at least ceil(1.5 * fd).
C23_GrowsToCeil ==
    [][(ApiStep("addEvent") /\ fdSize <= last'.fd)
          => fdSize' >= (3 * last'.fd + 1) \div 2]_vars

\* C23, amended: an add_event on an fd at or past the length of the vector
\* resizes it once, to floor(1.5 * fd), which is more than fd; an add_event
\* on an fd below the length, and del_event, leave the length alone.
C23_GrowsToFloor ==
    [][/\ ApiStep("addEvent") =>
            IF fdSize <= last'.fd
            THEN fdSize' = (3 * last'.fd) \div 2 /\ fdSize' > last'.fd
            ELSE fdSize' = fdSize
       /\ ApiStep("delEvent") => fdSize' = fdSize]_vars

\* An event was registered on an odd fd past the end of the vector, and
\* the vector has grown to floor(1.5 * fd), one less than ceil(1.5 * fd).
C23_Witness ==
    /\ last.op = "addEvent" /\ last.rv = 0
    /\ last.fd >= InitialContexts /\ last.fd % 2 = 1
    /\ fdSize = (3 * last.fd) \div 2
    /\ fdSize + 1 = (3 * last.fd + 1) \div 2

\* Fiber f runs a callback that calls switchTo; SwitchTarget is the thread
\* it asks for.
IsSwitchFiber(f) ==
    /\ f \in FiberIds /\ fib[f].m_cb[1] = "cb" /\ fib[f].m_cb[2] \in Cbs
    /\ cbBody[fib[f].m_cb[2]].kind = "switch"
SwitchTarget(f) == cbBody[fib[f].m_cb[2]].thread

\* C24: switch_to(thread) called by a running fiber of this scheduler
\* returns at once, enqueuing nothing, when thread is any or the current
\* thread; otherwise it enqueues the current fiber with affinity thread and
\* yields to hold, and the worker that then swaps into the fiber is the
\* target thread, continues it after the yield, and is the only thread
\* running it.
C24_SwitchTo ==
    [][\A t \in Tids :
          /\ (th[t].pc = "cb_start" /\ th'[t].pc # "cb_start" /\ IsSwitchFiber(th[t].t_fiber)) =>
                LET cur == th[t].t_fiber
                IN IF SwitchTarget(cur) \in {-1, t}
                   THEN m_fibers' = m_fibers /\ th'[t].pc # "cb_yield"
                   ELSE /\ m_fibers' = Append(m_fibers, FiberAndThread(cur, 0, SwitchTarget(cur)))
                        /\ th'[t].pc = "cb_yield"
          /\ (th[t].pc = "dispatch" /\ th'[t].pc # "dispatch" /\ IsFiberCase(t)
                /\ IsSwitchFiber(th[t].ft.fiber)) =>
                LET f == th[t].ft.fiber
                IN /\ t = SwitchTarget(f)
                   /\ th'[t].pc = "cb_resumed"
                   /\ \A u \in Tids \ {t} : th'[u].t_fiber # f]_vars

\* C25: an add_event for an (fd, E) whose bit is set in the mask fails its
\* assertion whatever waiter it brings, and such a call by the program
\* leaves the contexts, the pending count and the run queue as they are; no
\* step replaces the callback or fiber bound to an (fd, E) by another or
\* binds a second one next to it, so an event context never holds two
\* waiters.
C25_NoSecondWaiter ==
    /\ [](\A fd \in Fds, e \in Event, w \in Waiters :
            e \in m_fdContexts[fd].events =>
                addEvent(m_fdContexts, epoll, m_pendingEventCount, fd, e, w.cb, TRUE,
                         w.fiber, EXEC).assert)
    /\ [](\A fd \in Fds, e \in Event :
            LET ctx == getContext(m_fdContexts[fd], e) IN ~(ctx.cb # 0 /\ ctx.fiber # 0))
    /\ [][(ApiStep("addEvent") /\ last'.event \in m_fdContexts[last'.fd].events)
             => /\ halt' = "assert"
                /\ UNCHANGED <<m_fdContexts, epoll, m_pendingEventCount, m_fibers>>]_vars
    /\ [][\A fd \in Fds, e \in Event :
             LET old == getContext(m_fdContexts[fd], e)
                 new == getContext(m_fdContexts'[fd], e)
             IN /\ old.cb # 0 => (new.cb \in {0, old.cb} /\ new.fiber = 0)
                /\ old.fiber # 0 => (new.fiber \in {0, old.fiber} /\ new.cb = 0)]_vars

\* The program called add_event for a registered (fd, E): the assertion
\* failed and the callback bound before is still the one bound.
C25_Witness ==
    /\ last.op = "addEvent" /\ halt = "assert"
    /\ last.event \in m_fdContexts[last.fd].events
    /\ getContext(m_fdContexts[last.fd], last.event).cb \notin {0, last.cb}

\* C26: for each fd and each E of READ, WRITE, bit E is set in the fd's
\* mask exactly when the E event context has a scheduler and a fiber or a
\* callback, and when the bit is clear the context has no scheduler, no
\* fiber and no callback.
C26_MaskMatchesContexts ==
    \A fd \in Fds, e \in Event :
        LET ctx == getContext(m_fdContexts[fd], e)
        IN /\ (e \in m_fdContexts[fd].events) <=> (ctx.scheduler /\ (ctx.fiber # 0 \/ ctx.cb # 0))
           /\ ~(e \in m_fdContexts[fd].events) => ctx = EmptyContext

\* C27: the pending event count equals the number of (fd, event) bits set
\* over all masks, and is never below zero.
C27_PendingCountsBits ==
    /\ m_pendingEventCount = Cardinality({<<fd, e>> \in Fds \X Event : e \in m_fdContexts[fd].events})
    /\ m_pendingEventCount >= 0

\* The thread executes inside a fiber that its scheduling loop swapped in.
InSwappedFiber(pc) ==
    pc \in {"cb_start", "cb_yield", "cb_swapout", "cb_resumed", "idle", "idle_events"}

\* The point of the scheduling loop after the swapIn that started the
\* current fiber of thread t.
AfterSwapIn(t) ==
    IF th[t].t_fiber = th[t].idle_fiber THEN "after_idle"
    ELSE IF th[t].t_fiber = th[t].cb_fiber THEN "after_cb"
    ELSE "after_fiber"

\* C28: when a fiber that the scheduling loop swapped in yields or finishes,
\* its thread continues in the loop right after that swapIn, on private
\* workers and on the caller thread; and when run() returns on the caller
\* thread, ending the root fiber, the thread continues in stop() after
\* call().
C28_SwapTargets ==
    [][\A t \in Tids :
          /\ (InSwappedFiber(th[t].pc) /\ ~InSwappedFiber(th'[t].pc))
                => th'[t].pc = AfterSwapIn(t)
          /\ (t = m_rootThread /\ th[t].pc = "run_exit" /\ th'[t].pc \notin {"run_exit", "aborted"})
                => th'[t].pc = "stop_join"]_vars

\* The edges of the fiber state machine.
LifecycleEdges ==
    {<<INIT, EXEC>>, <<READY, EXEC>>, <<HOLD, EXEC>>,
     <<EXEC, READY>>, <<EXEC, HOLD>>, <<EXEC, TERM>>, <<EXEC, EXCEPT_>>,
     <<TERM, INIT>>, <<EXCEPT_, INIT>>}

\* Fiber f is a task fiber: neither the root fiber nor an idle fiber.
IsTaskFiber(f) ==
    /\ fib[f].alive /\ fib[f].m_stack
    /\ f # m_rootFiber /\ \A t \in Tids : th[t].idle_fiber # f

\* C29: every change of a task fiber's state is one of INIT->EXEC,
\* READY->EXEC, HOLD->EXEC, EXEC->READY, EXEC->HOLD, EXEC->TERM,
\* EXEC->EXCEPT, TERM->INIT and EXCEPT->INIT; the last two are made only by
\* the reset of the worker that holds the fiber as its callback fiber; and
\* no thread swaps into a fiber that is TERM or EXCEPT.
C29_Lifecycle ==
    [][\A f \in FiberIds :
          (IsTaskFiber(f) /\ fib'[f].alive) =>
              /\ fib'[f].m_state # fib[f].m_state
                    => <<fib[f].m_state, fib'[f].m_state>> \in LifecycleEdges
              /\ (fib[f].m_state \in {TERM, EXCEPT_} /\ fib'[f].m_state = INIT)
                    => \E t \in Tids : th[t].pc = "after_cb" /\ th[t].cb_fiber = f
              /\ \A t \in Tids :
                    (th[t].t_fiber # f /\ th'[t].t_fiber = f)
                        => fib[f].m_state \notin {TERM, EXCEPT_}]_vars

\* Thread t has taken an entry from the run queue and has not yet executed
\* the decrement that follows it.
HoldsEntry(t) ==
    \/ th[t].pc = "dispatch" /\ th[t].is_active
    \/ th[t].pc \in {"after_fiber", "after_cb"}
    \/ InSwappedFiber(th[t].pc) /\ th[t].tctx \in {"after_fiber", "after_cb"}

\* C30: the active count is the number of threads between taking an entry
\* and the decrement after its swapIn returned (or the decrement of case 3
\* when the entry is not run), so it is never below zero; it goes up only
\* in the step that takes the entry and down only in a step of a thread
\* that held one.
C30_ActiveCount ==
    /\ [](m_activeThreadCount = Cardinality({t \in Tids : HoldsEntry(t)}))
    /\ [](m_activeThreadCount >= 0)
    /\ [][/\ m_activeThreadCount' > m_activeThreadCount
                => \E t \in Tids : /\ th[t].pc = "select" /\ th'[t].pc = "dispatch"
                                   /\ th'[t].ft # NoTask
                                   /\ m_activeThreadCount' = m_activeThreadCount + 1
          /\ m_activeThreadCount' < m_activeThreadCount
                => \E t \in Tids : /\ HoldsEntry(t) /\ th'[t].pc \in {"select", "aborted"}
                                   /\ ~InSwappedFiber(th[t].pc)
                                   /\ m_activeThreadCount' = m_activeThreadCount - 1]_vars

\* A thread has taken an entry whose fiber had already ended, which it will
\* not run, and the count includes it.
C30_Witness ==
    /\ m_activeThreadCount >= 1
    /\ \E t \in Tids : /\ th[t].pc = "dispatch" /\ th[t].is_active /\ IsIdleCase(t)
                        /\ th[t].ft.fiber # 0
                        /\ fib[th[t].ft.fiber].m_state \in {TERM, EXCEPT_}

\* Thread t takes an entry in this step: it leaves the selection phase with
\* the entry at position i, which is erased from the queue.
Took(t, i) ==
    /\ th[t].pc = "select" /\ th'[t].pc = "dispatch"
    /\ i \in DOMAIN m_fibers
    /\ th'[t].ft = m_fibers[i]
    /\ m_fibers' = Erase(m_fibers, i)

\* The entries of queue q that are pinned to thread u, in queue order.
PinnedTo(u, q) == SelectSeq(q, LAMBDA e : e.thread = u)

IsPrefix(a, b) == Len(a) <= Len(b) /\ SubSeq(b, 1, Len(a)) = a

\* Thread t's scan of this step went past an entry pinned to another
\* thread: one that lies before the entry taken, or anywhere in the queue
\* when nothing is taken.
PassedOver(t) ==
    /\ th[t].pc = "select" /\ th'[t].pc = "dispatch"
    /\ \E j \in DOMAIN m_fibers :
          /\ m_fibers[j].thread \notin {-1, t}
          /\ \/ m_fibers' = m_fibers
             \/ \E i \in DOMAIN m_fibers : i > j /\ Took(t, i)

\* C31: an entry leaves the run queue only in a step of a worker that takes
\* it, and its affinity is then any thread or that worker; in every other
\* step the entries pinned to a thread stay queued in their order; and a
\* worker whose scan went past an entry pinned to another thread calls
\* tickle() in that pass.
C31_Affinity ==
    [][/\ Len(m_fibers') < Len(m_fibers)
             => \E t \in Tids, i \in DOMAIN m_fibers :
                   Took(t, i) /\ m_fibers[i].thread \in {-1, t}
       /\ \A t \in Tids :
             /\ (th'[t].ft # th[t].ft /\ th'[t].ft # NoTask) => th'[t].ft.thread \in {-1, t}
             /\ ~(\E i \in DOMAIN m_fibers : Took(t, i))
                   => IsPrefix(PinnedTo(t, m_fibers), PinnedTo(t, m_fibers'))
             /\ PassedOver(t) => tickleFds' = tickle(kind, tickleFds, m_idleThreadCount)]_vars

\* A worker of an IOManager has finished a scan while the queue holds an
\* entry pinned to the other thread, which is idle, and the tickle pipe
\* holds a byte.
C31_Witness ==
    \E t \in Tids :
       /\ kind = "IOManager" /\ th[t].pc = "dispatch"
       /\ \E i \in DOMAIN m_fibers : m_fibers[i].thread \notin {-1, t}
       /\ m_idleThreadCount >= 1 /\ tickleFds >= 1

\* The interest list entry of fd asks for exactly the events of the mask of
\* its FdContext, and there is none when the mask is NONE.
InterestIsMask(fd) ==
    /\ epoll[fd].reg <=> m_fdContexts[fd].events # NONE
    /\ epoll[fd].events = m_fdContexts[fd].events

\* Thread t handles a report of a descriptor in this step.
HandlesReport(t) ==
    /\ th[t].pc = "idle_events" /\ th[t].events # <<>>
    /\ ~Head(th[t].events).tickle
    /\ th'[t].events = Tail(th[t].events)

\* The re-arm of the idle loop changes the interest list only for the
\* descriptor whose FdContext the report carries.
RearmSameFd ==
    \A t \in Tids :
       HandlesReport(t) =>
          \A fd \in Fds : epoll'[fd] # epoll[fd] => fd = Head(th[t].events).ptr

\* C32: between the operations, the events every descriptor is registered
\* for in the epoll instance are the mask of its FdContext (no registration
\* when the mask is NONE), and the idle loop re-arms the descriptor whose
\* FdContext reported the event.
C32_InterestTracksMask ==
    /\ [](kind = "IOManager" => \A fd \in Fds : InterestIsMask(fd))
    /\ [][RearmSameFd]_vars

\* The second half of C32 alone.
C32_Rearm == [][RearmSameFd]_vars

\* C33: when the idle loop handles a report with EPOLLERR or EPOLLHUP, every
\* waiter registered on the reporting descriptor is put on the run queue in
\* that step, the mask becomes NONE and the pending count goes down by the
\* number of waiters; a report none of whose bits is registered changes
\* nothing.
C33_ErrorsWakeAll ==
    [][\A t \in Tids :
          HandlesReport(t) =>
             LET ev == Head(th[t].events)
                 fd_ctx == m_fdContexts[ev.ptr]
                 n == Cardinality(fd_ctx.events)
             IN /\ (ev.bits \cap {EPOLLERR, EPOLLHUP} # {})
                      => /\ m_fdContexts'[ev.ptr].events = NONE
                         /\ Len(m_fibers') = Len(m_fibers) + n
                         /\ m_pendingEventCount' = m_pendingEventCount - n
                /\ (ev.bits \cap {EPOLLERR, EPOLLHUP} = {} /\ ev.bits \cap fd_ctx.events = {})
                      => /\ m_fdContexts' = m_fdContexts /\ m_fibers' = m_fibers
                         /\ m_pendingEventCount' = m_pendingEventCount]_vars

\* Thread t is about to swap into a fiber that is EXEC: the assertion of
\* Fiber::swapIn fails.
SwapInAsserts(t) ==
    /\ th[t].pc = "dispatch" /\ IsFiberCase(t)
    /\ fib[th[t].ft.fiber].m_state = EXEC

\* C34: no fiber is the current fiber of two threads, and no worker reaches
\* the swapIn of a fiber that is EXEC.
C34_OneThreadPerFiber ==
    /\ \A f \in FiberIds : ~OnTwoThreads(f)
    /\ \A t \in Tids : ~SwapInAsserts(t)

\* C35: the length of the vector never decreases, no FdContext is dropped
\* from the vector, and the FdContext a thread holds inside addEvent is the
\* vector's entry for its descriptor.
C35_VectorKeepsContexts ==
    /\ [][fdSize' >= fdSize]_vars
    /\ [][fdLookup'.gen = fdLookup.gen]_vars
    /\ [](\A t \in Tids :
             fdLookup.at[t].pc = "found"
                => /\ InVector(fdSize, fdLookup.at[t].fd)
                   /\ fdLookup.at[t].ctx = fdLookup.gen[fdLookup.at[t].fd])

\* C36: on a started IOManager every callback that is on the run queue with
\* any-thread affinity is eventually entered by a worker.  Set aside are
\* the runs the program itself ends with a failed assertion and those in
\* which the first access through the null t_threadFiber faults.
C36_QueueLiveness ==
    \A c \in Cbs :
       (/\ \E i \in DOMAIN m_fibers : m_fibers[i].cb = c /\ m_fibers[i].thread = -1
        /\ nullSlot = "usable")
          ~> (ran[c] >= 1 \/ halt = "assert")

\* Thread t's idle fiber ends in this step: the worker will leave its
\* scheduling loop.
IdleEnds(t) ==
    /\ th[t].idle_fiber # 0
    /\ fib[th[t].idle_fiber].m_state # TERM
    /\ fib'[th[t].idle_fiber].m_state = TERM

EarliestExpiry(tm, set) == IF set = {} THEN NoTimer ELSE tm[TimersBegin(tm, set)].m_next

\* C38: a Timer::reset or Timer::refresh that succeeds while the tickled
\* flag is false and leaves its timer as the one expiring first, earlier
\* than the earliest expiry before the call, calls
\* onTimerInsertedAtFront(): the flag is set and tickle() is called.
C38_ResetNotifies ==
    [][(/\ ApiStep("reset") \/ ApiStep("refresh")
        /\ last'.rv = 1
        /\ ~m_tickled
        /\ \A o \in m_timers' \ {last'.timer} :
              timers'[last'.timer].m_next < timers'[o].m_next
        /\ timers'[last'.timer].m_next < EarliestExpiry(timers, m_timers))
          => /\ m_tickled'
             /\ tickleFds' = tickle(kind, tickleFds, m_idleThreadCount)]_vars

\* The timers a step collects: those of the set that leave it or change.
Collected == {t \in m_timers : ~(t \in m_timers') \/ timers'[t] # timers[t]}

\* C39: in a list_expired_cb call on a non-empty set, detect_clock_rollover
\* is true only if now is more than 3600000 ms below the previously observed
\* time as integers; when now >= previous or previous - now <= 3600000 the
\* call collects only timers with expiry <= now; and the call leaves the
\* previously observed time equal to now.
C39_NoFalseRollover ==
    [][(ApiStep("listExpiredCb") /\ m_timers # {}) =>
             /\ detectClockRollover(now, m_previouseTime) => m_previouseTime - now > HourMs
             /\ m_previouseTime' = now
             /\ (now >= m_previouseTime \/ m_previouseTime - now <= HourMs)
                   => \A t \in Collected : timers[t].m_next <= now]_vars

====
